---- MODULE Spec2Model ----
(***************************************************************************)
(* Javari intelligence layer: the search endpoint (analyze-query), the     *)
(* knowledge upload endpoint, the feed event detector, the embedding       *)
(* service and the query analyzer.                                         *)
(*                                                                         *)
(* Text is a sequence of one-character strings, so that length, substring  *)
(* search, splitting and lower-casing are computed as the code does.       *)
(***************************************************************************)
EXTENDS Integers, Sequences, FiniteSets, TLC

VARIABLES
    \* query analyzer (pure function, applied to a drawn input)
    aqQuery, aqResult, aqPc,
    \* search endpoint POST /api/analyze-query
    sPc,          \* position of the handler: idle, embed, search, track, done
    sReq,         \* the request body being served
    sAnalysis,    \* analysis of the query
    sEmbedding,   \* queryEmbedding
    sResults,     \* results
    sMethod,      \* searchMethod
    sStoreData,   \* the data the store returned to the search step
    sTrack,       \* outcome of the tracking insert: none, ok, error, thrown
    sCalls,       \* provider and store calls issued by the request, in order
    sFailed,      \* the call that threw, if any
    sResponse,    \* the response returned
    sServed,      \* number of requests received
    user_queries, \* table user_queries
    \* knowledge upload endpoint and admin feed endpoint
    iPc,          \* position of the upload handler: idle, page, embed, chunk, done
    iReq,         \* the upload request being served
    iDocPage,     \* id of docPage (0 before the insert)
    iEmbedding,   \* embedding
    iEmbeddingError, \* embeddingError
    iChunks,      \* chunks
    iIdx,         \* loop index i over chunks
    iInserted,    \* chunksInserted.length
    iCalls,       \* provider and store calls issued by the request, in order
    iResponse,    \* the response returned
    iServed,      \* number of ingestion requests received
    iClock,       \* Date.now()
    documentation_pages,  \* table documentation_pages
    documentation_chunks, \* table documentation_chunks
    knowledge_sources,    \* table knowledge_sources (names)
    feed_items,           \* table feed_items
    knowledge_content,    \* table knowledge_content
    \* feed event detector
    dBatch,       \* feedItems handed to detectEvents
    dPc,          \* per run: idle, select, insert, done
    dQueue,       \* per run: the potentialEvents still to be visited
    dStarted,     \* number of runs started
    detected_events, \* table detected_events
    \* embedding service: generateMissingEmbeddings behind POST generate-embeddings
    ePc,          \* idle, embed (before a batch's provider call), updates, done
    ePages,       \* pages: ids of the pages selected for the run
    eI,           \* loop index i
    eProcessed,   \* processed
    eFailed,      \* failed
    eTotalTokens, \* totalTokens
    eUpd,         \* per page: the update issued for it by the run
    eLog,         \* per batch of the run, how its provider call ended
    eResult,      \* what the run returned
    \* chunkText (pure function, applied to a drawn input)
    ckText, ckSize, ckChunks, ckPc,
    \* feedback endpoint POST /api/metrics
    fPc,          \* position of the handler: idle, update, done
    fReq,         \* the request body being served
    fCalls,       \* store calls issued by the request
    fResponse,    \* the response returned
    fServed,      \* number of feedback requests received
    \* groupQueryVolume (pure function, applied to a drawn input)
    gvQueries, gvRange, gvResult, gvPc,
    \* texts submitted to the embedding provider
    tcTexts,      \* the texts handed to generateEmbedding / generateEmbeddingsBatch
    tcInput,      \* the input of the provider request
    tcPc,         \* ready, submitted
    \* document sync queue processor (learn/conversation.js handler)
    qPc,          \* position of the handler: idle, mark, doc, commit, meta, complete, fail, done
    qItems,       \* queueItems: the items selected by the run, as read
    qIdx,         \* index of the item of the loop
    qTotals,      \* totalProcessed, totalSucceeded, totalFailed
    qResponse,    \* the response of the run
    qAttempts,    \* per item, how many runs have attempted it
    qDocs,        \* ids of the documents in knowledge_content
    qSynced,      \* ids of the documents whose metadata carries the GitHub data
    document_sync_queue, \* table document_sync_queue
    \* legal compliance endpoint POST /api/legal-compliance
    lPc,          \* position of the handler: idle, save, save copyright, decide, done
    lReq,         \* the request body being served
    lResult,      \* result of performLegalCheck
    lCalls,       \* store writes issued by the request, in order
    lResponse,    \* the response returned
    lServed,      \* number of requests received
    generated_slogans, \* table generated_slogans
    approval_queue     \* table approval_queue

analyzeVars == <<aqQuery, aqResult, aqPc>>
searchOwnVars == <<sPc, sReq, sAnalysis, sEmbedding, sResults, sMethod, sStoreData,
                   sTrack, sCalls, sFailed, sResponse, sServed>>
searchVars == <<searchOwnVars, user_queries>>
ingestVars == <<iPc, iReq, iDocPage, iEmbedding, iEmbeddingError, iChunks, iIdx,
                iInserted, iCalls, iResponse, iServed, iClock, documentation_chunks,
                knowledge_sources, feed_items, knowledge_content>>
pageVars == <<documentation_pages>>
detectVars == <<dBatch, dPc, dQueue, dStarted, detected_events>>
embedVars == <<ePc, ePages, eI, eProcessed, eFailed, eTotalTokens, eUpd, eLog, eResult>>
chunkVars == <<ckText, ckSize, ckChunks, ckPc>>
feedbackVars == <<fPc, fReq, fCalls, fResponse, fServed>>
volumeVars == <<gvQueries, gvRange, gvResult, gvPc>>
pureVars == <<chunkVars, volumeVars>>
truncVars == <<tcTexts, tcInput, tcPc>>
syncVars == <<qPc, qItems, qIdx, qTotals, qResponse, qAttempts, qDocs, qSynced,
              document_sync_queue>>
legalVars == <<lPc, lReq, lResult, lCalls, lResponse, lServed, generated_slogans,
               approval_queue>>
lateVars == <<truncVars, syncVars, legalVars>>
earlyVars == <<analyzeVars, searchVars, ingestVars, pageVars, detectVars, embedVars,
               chunkVars, feedbackVars, volumeVars>>
vars == <<earlyVars, lateVars>>

\* what each component leaves alone
exceptAnalyze == <<searchVars, ingestVars, pageVars, detectVars, embedVars,
                   pureVars, feedbackVars, lateVars>>
exceptSearch == <<analyzeVars, ingestVars, pageVars, detectVars, embedVars,
                  pureVars, feedbackVars, lateVars>>
exceptIngest == <<analyzeVars, searchVars, detectVars, embedVars, pureVars, feedbackVars, lateVars>>
exceptDetect == <<analyzeVars, searchVars, ingestVars, pageVars, embedVars,
                  pureVars, feedbackVars, lateVars>>
exceptEmbed == <<analyzeVars, searchVars, ingestVars, detectVars, pureVars, feedbackVars, lateVars>>
exceptChunk == <<analyzeVars, searchVars, ingestVars, pageVars, detectVars, embedVars,
                 volumeVars, feedbackVars, lateVars>>
exceptFeedback == <<analyzeVars, searchOwnVars, ingestVars, pageVars, detectVars,
                    embedVars, pureVars, lateVars>>
exceptTrunc == <<earlyVars, syncVars, legalVars>>
exceptSync == <<earlyVars, truncVars, legalVars>>
exceptLegal == <<earlyVars, truncVars, syncVars>>
exceptVolume == <<analyzeVars, searchVars, ingestVars, pageVars, detectVars, embedVars,
                  chunkVars, feedbackVars, lateVars>>

\* JavaScript null / undefined
Null == "null"

(***************************************************************************)
(* Text helpers                                                            *)
(***************************************************************************)
UpperChars == <<"A","B","C","D","E","F","G","H","I","J","K","L","M",
                "N","O","P","Q","R","S","T","U","V","W","X","Y","Z">>
LowerChars == <<"a","b","c","d","e","f","g","h","i","j","k","l","m",
                "n","o","p","q","r","s","t","u","v","w","x","y","z">>

\* String.prototype.toLowerCase
toLowerCase(s) ==
    [i \in 1..Len(s) |->
        IF \E k \in 1..Len(UpperChars) : UpperChars[k] = s[i]
        THEN LowerChars[CHOOSE k \in 1..Len(UpperChars) : UpperChars[k] = s[i]]
        ELSE s[i]]

\* String.prototype.includes
includes(s, sub) ==
    \E i \in 0..(Len(s) - Len(sub)) : SubSeq(s, i + 1, i + Len(sub)) = sub

\* String.prototype.split(' '): the pieces between single spaces; the empty
\* string gives one empty piece.
RECURSIVE splitFrom(_, _, _)
splitFrom(s, i, cur) ==
    IF i > Len(s) THEN <<cur>>
    ELSE IF s[i] = " " THEN <<cur>> \o splitFrom(s, i + 1, <<>>)
    ELSE splitFrom(s, i + 1, Append(cur, s[i]))

splitSpace(s) == splitFrom(s, 1, <<>>)

RECURSIVE keywordsIn_FirstOnly(_, _)
keywordsIn_FirstOnly(kws, lowerQuery) ==
    IF kws = <<>> THEN <<>>
    ELSE IF includes(lowerQuery, Head(kws)) THEN <<Head(kws)>>
    ELSE keywordsIn_FirstOnly(Tail(kws), lowerQuery)

\* the forEach / push loops of lines 489-493 and 502-506, order kept
RECURSIVE keywordsIn(_, _)
keywordsIn(kws, lowerQuery) ==
    IF kws = <<>> THEN <<>>
    ELSE (IF includes(lowerQuery, Head(kws)) THEN <<Head(kws)>> ELSE <<>>)
         \o keywordsIn(Tail(kws), lowerQuery)

RECURSIVE concatAll(_)
concatAll(ss) == IF ss = <<>> THEN <<>> ELSE Head(ss) \o concatAll(Tail(ss))

(***************************************************************************)
(* analyzeQuery                                                            *)
(***************************************************************************)
languageKeywords == <<
    <<"j","a","v","a","s","c","r","i","p","t">>,
    <<"t","y","p","e","s","c","r","i","p","t">>,
    <<"p","y","t","h","o","n">>,
    <<"j","a","v","a">>,
    <<"c","+","+">>,
    <<"c","#">>,
    <<"g","o">>,
    <<"r","u","s","t">>,
    <<"r","u","b","y">>,
    <<"p","h","p">>,
    <<"s","w","i","f","t">>,
    <<"k","o","t","l","i","n">>,
    <<"s","c","a","l","a">>,
    <<"h","t","m","l">>,
    <<"c","s","s">>,
    <<"s","q","l">> >>

topicKeywords == <<
    <<"r","e","a","c","t">>,
    <<"v","u","e">>,
    <<"a","n","g","u","l","a","r">>,
    <<"s","v","e","l","t","e">>,
    <<"n","e","x","t",".","j","s">>,
    <<"n","o","d","e",".","j","s">>,
    <<"e","x","p","r","e","s","s">>,
    <<"d","j","a","n","g","o">>,
    <<"f","l","a","s","k">>,
    <<"f","a","s","t","a","p","i">>,
    <<"p","o","s","t","g","r","e","s","q","l">>,
    <<"m","o","n","g","o","d","b">>,
    <<"r","e","d","i","s">>,
    <<"d","o","c","k","e","r">>,
    <<"k","u","b","e","r","n","e","t","e","s">>,
    <<"a","w","s">>,
    <<"g","i","t">>,
    <<"w","e","b","p","a","c","k">>,
    <<"v","i","t","e">>,
    <<"b","a","b","e","l">> >>

kwHowTo == << <<"h","o","w"," ","t","o">>, <<"h","o","w"," ","d","o"," ","i">>,
              <<"h","o","w"," ","c","a","n">> >>
kwExplanation == << <<"w","h","a","t"," ","i","s">>, <<"w","h","a","t"," ","a","r","e">>,
                    <<"e","x","p","l","a","i","n">> >>
kwComparison == << <<"v","s">>, <<"v","e","r","s","u","s">>,
                   <<"c","o","m","p","a","r","e">>,
                   <<"d","i","f","f","e","r","e","n","c","e"," ",
                     "b","e","t","w","e","e","n">> >>
kwTroubleshooting == << <<"e","r","r","o","r">>,
                        <<"n","o","t"," ","w","o","r","k","i","n","g">>,
                        <<"f","i","x">>, <<"d","e","b","u","g">> >>

includesAny(lowerQuery, kws) ==
    \E k \in 1..Len(kws) : includes(lowerQuery, kws[k])

\* the fallback of the intent chain: a query of at most 3 space-separated
\* pieces is a reference lookup
intentShort_NoEmpty(lowerQuery) ==
    IF lowerQuery # <<>> /\ Len(splitSpace(lowerQuery)) <= 3
    THEN "reference" ELSE Null

intentShort(lowerQuery) ==
    IF Len(splitSpace(lowerQuery)) <= 3 THEN "reference" ELSE Null

detectIntent(lowerQuery) ==
    IF includesAny(lowerQuery, kwHowTo) THEN "how-to"
    ELSE IF includesAny(lowerQuery, kwExplanation) THEN "explanation"
    ELSE IF includesAny(lowerQuery, kwComparison) THEN "comparison"
    ELSE IF includesAny(lowerQuery, kwTroubleshooting) THEN "troubleshooting"
    ELSE intentShort(lowerQuery)

detectComplexity(queryText) ==
    IF Len(queryText) > 100 \/ Len(splitSpace(queryText)) > 15 THEN "complex"
    ELSE IF Len(queryText) > 50 \/ Len(splitSpace(queryText)) > 8 THEN "moderate"
    ELSE "simple"

analyzeQuery(queryText) ==
    LET lowerQuery == toLowerCase(queryText) IN
    [ intent     |-> detectIntent(lowerQuery),
      complexity |-> detectComplexity(queryText),
      topics     |-> keywordsIn(topicKeywords, lowerQuery),
      languages  |-> keywordsIn(languageKeywords, lowerQuery) ]

\* no analysis made yet
NoAnalysis == [ intent |-> Null, complexity |-> Null, topics |-> <<>>, languages |-> <<>> ]

(***************************************************************************)
(* Inputs of the analyzer: concatenations of at most MaxFrags fragments    *)
(***************************************************************************)
MaxFrags == 3

QueryFragments == {
    <<" ">>,
    <<"H","o","w"," ","d","o"," ","I">>,
    <<"w","h","a","t"," ","i","s">>,
    <<"R","e","a","c","t">>,
    <<"j","a","v","a">>,
    <<"h","o","o","k","s","?">>,
    <<" ","v","u","e"," ">>,
    <<"f","i","x"," ","v","s">>,
    <<"a"," ","b"," ","c"," ","d"," ","e"," ","f"," ","g"," ","h">>,
    <<"a"," ","b"," ","c"," ","d"," ","e"," ","f"," ","g"," ","h"," ","i">> }

RECURSIVE FragSeqs(_)
FragSeqs(n) ==
    IF n = 0 THEN { <<>> }
    ELSE FragSeqs(n - 1) \cup
         { Append(fs, f) : fs \in { g \in FragSeqs(n - 1) : Len(g) = n - 1 },
                           f \in QueryFragments }

\* 'How do I use React hooks?'
QueryReactHooks == <<"H","o","w"," ","d","o"," ","I"," ","u","s","e"," ",
                     "R","e","a","c","t"," ","h","o","o","k","s","?">>

Queries == { concatAll(fs) : fs \in FragSeqs(MaxFrags) } \cup { QueryReactHooks }

AnalyzeStart ==
    /\ aqQuery \in Queries
    /\ aqResult = NoAnalysis
    /\ aqPc = "ready"

AnalyzeIdle ==
    /\ aqQuery = <<>>
    /\ aqResult = NoAnalysis
    /\ aqPc = "off"

\* one call of analyzeQuery on the drawn query
Analyze ==
    /\ aqPc = "ready"
    /\ aqResult' = analyzeQuery(aqQuery)
    /\ aqPc' = "done"
    /\ UNCHANGED aqQuery
    /\ UNCHANGED exceptAnalyze

(***************************************************************************)
(* C10                                                                     *)
(***************************************************************************)
\* C10 as stated: analyzeQuery of the empty string returns intent none,
\* complexity simple and empty topic and language lists.
C10_EmptyQueryIntentNone ==
    (aqPc = "done" /\ aqQuery = <<>>) =>
        /\ aqResult.intent = Null
        /\ aqResult.complexity = "simple"
        /\ aqResult.topics = <<>>
        /\ aqResult.languages = <<>>

\* C10 amended: analyzeQuery of the empty string returns intent reference
\* (the empty string splits into one piece, which is at most 3), complexity
\* simple and empty topic and language lists.
C10_EmptyQueryIntentReference ==
    (aqPc = "done" /\ aqQuery = <<>>) =>
        /\ aqResult.intent = "reference"
        /\ aqResult.complexity = "simple"
        /\ aqResult.topics = <<>>
        /\ aqResult.languages = <<>>

C10_Witness == aqPc = "done" /\ aqQuery = <<>> /\ aqResult.complexity = "simple"

(***************************************************************************)
(* C11 - C13                                                               *)
(***************************************************************************)
\* the words of a text: its maximal runs of characters other than the space
wordCount(text) ==
    Cardinality({ i \in 1..Len(text) :
                    text[i] # " " /\ (i = 1 \/ text[i - 1] = " ") })

\* the keyword rules in their precedence order
intentRules == <<
    [ intent |-> "how-to",          keywords |-> kwHowTo ],
    [ intent |-> "explanation",     keywords |-> kwExplanation ],
    [ intent |-> "comparison",      keywords |-> kwComparison ],
    [ intent |-> "troubleshooting", keywords |-> kwTroubleshooting ] >>

ruleMatches(k, lowerQuery) ==
    \E j \in 1..Len(intentRules[k].keywords) :
        includes(lowerQuery, intentRules[k].keywords[j])

\* C11: the intent is that of the first keyword rule, in the order how-to,
\* explanation, comparison, troubleshooting, matching the lower-cased query;
\* when no rule matches it is reference for a query of at most 3 words and
\* none otherwise.
C11_IntentByFirstMatchingRule ==
    aqPc = "done" =>
        LET lowerQuery == toLowerCase(aqQuery)
            matching == { k \in 1..Len(intentRules) : ruleMatches(k, lowerQuery) }
        IN IF matching # {}
           THEN aqResult.intent =
                    intentRules[CHOOSE k \in matching : \A l \in matching : k <= l].intent
           ELSE IF wordCount(aqQuery) <= 3
                THEN aqResult.intent = "reference"
                ELSE aqResult.intent = Null

\* C12: complexity is complex exactly when the query is longer than 100
\* characters or has more than 15 words, moderate exactly when that does not
\* hold and it is longer than 50 characters or has more than 8 words, and
\* simple otherwise, whatever the spacing of the query.
C12_ComplexityByLengthAndWords ==
    aqPc = "done" =>
        aqResult.complexity =
            IF Len(aqQuery) > 100 \/ wordCount(aqQuery) > 15 THEN "complex"
            ELSE IF Len(aqQuery) > 50 \/ wordCount(aqQuery) > 8 THEN "moderate"
            ELSE "simple"

positionIn(vocabulary, term) ==
    CHOOSE k \in 1..Len(vocabulary) : vocabulary[k] = term

\* `found` lists exactly the entries of `vocabulary` that occur in the
\* lower-cased query, in declaration order, each once
exactlyTheMatches(found, vocabulary, lowerQuery) ==
    /\ \A j \in 1..Len(found) : \E k \in 1..Len(vocabulary) : vocabulary[k] = found[j]
    /\ \A k \in 1..Len(vocabulary) :
          includes(lowerQuery, vocabulary[k]) <=>
              \E j \in 1..Len(found) : found[j] = vocabulary[k]
    /\ \A i, j \in 1..Len(found) :
          i < j => positionIn(vocabulary, found[i]) < positionIn(vocabulary, found[j])

MaxRequests == 1
MaxMatch == 2

\* null for a score; scores are in tenths
NullScore == -1
Scores == {0, 8}
PageIds == {"p1", "p2"}
QueryIdSeq == <<"q1", "q2", "q3", "q4">>
Vector == "vec"

\* request bodies: query missing, empty, blank or a real query; searchType
\* missing or one of the three; trackQuery missing or a boolean
SearchQueries == { <<>>, <<" ", " ">>, <<"g","i","t"," ","f","i","x">> }
SearchBodies ==
    [ hasQuery    : BOOLEAN,
      query       : SearchQueries,
      searchType  : {Null, "semantic", "hybrid", "fulltext"},
      trackQuery  : {Null, "true", "false"},
      matchCount  : 1..MaxMatch ]

\* String.prototype.trim
isSpace(c) == c \in {" ", "\t", "\n"}
RECURSIVE trimStart(_)
trimStart(s) == IF s # <<>> /\ isSpace(Head(s)) THEN trimStart(Tail(s)) ELSE s
RECURSIVE trimEnd(_)
trimEnd(s) ==
    IF s # <<>> /\ isSpace(s[Len(s)]) THEN trimEnd(SubSeq(s, 1, Len(s) - 1)) ELSE s
trim(s) == trimEnd(trimStart(s))

\* destructuring defaults of the body
searchTypeOf(body) == IF body.searchType = Null THEN "hybrid" ELSE body.searchType
trackQueryOf_Always(body) == TRUE
trackQueryOf(body) == IF body.trackQuery = Null THEN TRUE ELSE body.trackQuery = "true"

\* !query || query.trim().length === 0
queryInvalid(body) == ~body.hasQuery \/ body.query = <<>> \/ Len(trim(body.query)) = 0

\* Array.prototype.slice(0, n)
slice(seq, n) == SubSeq(seq, 1, IF Len(seq) < n THEN Len(seq) ELSE n)

\* a || b on scores: 0 and null are falsy
orScore(a, b) == IF a = NullScore \/ a = 0 THEN b ELSE a

\* rows the store can return: distinct pages, at most the requested count
RowSeqs(n) ==
    { <<>> } \cup
    { <<[page_id |-> p, score |-> x]>> : p \in PageIds, x \in Scores } \cup
    (IF n < 2 THEN {}
     ELSE { <<[page_id |-> p, score |-> x], [page_id |-> q, score |-> y]>> :
              p \in PageIds, q \in PageIds, x \in Scores, y \in Scores })

StoreRows(n) ==
    { rs \in RowSeqs(n) : \A i, j \in 1..Len(rs) : i # j => rs[i].page_id # rs[j].page_id }

\* the data field of a store answer without error: null or rows
NullData == [isNull |-> TRUE, rows |-> <<>>]
StoreData(n) == {NullData} \cup { [isNull |-> FALSE, rows |-> rs] : rs \in StoreRows(n) }

\* which branch of step 3 runs
branchOf(searchType, embedding) ==
    IF searchType = "semantic" /\ embedding # Null THEN "semantic"
    ELSE IF searchType = "hybrid" /\ embedding # Null THEN "hybrid"
    ELSE "fulltext"

\* data || [] and, for fulltext, the mapping to the common row shape
resultsOf(branch, data) ==
    LET rows == IF data.isNull THEN <<>> ELSE data.rows IN
    [i \in 1..Len(rows) |->
        [ page_id        |-> rows[i].page_id,
          similarity     |-> IF branch = "semantic" THEN rows[i].score ELSE NullScore,
          combined_score |-> IF branch = "hybrid" THEN rows[i].score ELSE NullScore ]]

foundInDocs_Many(results) == Len(results) > 1

foundInDocsOf(results) == Len(results) > 0

topSimilarityOf(results) ==
    IF results = <<>> THEN NullScore
    ELSE orScore(orScore(results[1].similarity, results[1].combined_score), NullScore)

\* the row of user_queries built at step 4
userQueryRow(id, body, analysis, embedding, results, method) ==
    [ id                   |-> id,
      query_text           |-> body.query,
      query_embedding      |-> embedding,
      query_intent         |-> analysis.intent,
      query_complexity     |-> analysis.complexity,
      detected_topics      |-> IF Len(analysis.topics) > 0 THEN analysis.topics ELSE <<>>,
      detected_languages   |-> IF Len(analysis.languages) > 0 THEN analysis.languages ELSE <<>>,
      found_in_docs        |-> foundInDocsOf(results),
      relevant_page_ids    |-> slice([i \in 1..Len(results) |-> results[i].page_id], 10),
      top_similarity_score |-> topSimilarityOf(results),
      search_method        |-> method,
      result_count         |-> Len(results) ]

successResponse(body, analysis, queryId, method, results) ==
    [ status      |-> 200,
      success     |-> TRUE,
      analysis    |-> analysis,
      queryId     |-> queryId,
      method      |-> method,
      resultCount |-> Len(results),
      foundInDocs |-> foundInDocsOf(results),
      results     |-> slice(results, body.matchCount) ]

errorResponse(status) ==
    [ status |-> status, success |-> FALSE, analysis |-> NoAnalysis, queryId |-> Null,
      method |-> Null, resultCount |-> 0, foundInDocs |-> FALSE, results |-> <<>> ]

\* no response returned yet
NoResponse == errorResponse(0)

NoBody == [ hasQuery |-> FALSE, query |-> <<>>, searchType |-> Null,
            trackQuery |-> Null, matchCount |-> 1 ]

SearchOwnIdle ==
    /\ sPc = "off"
    /\ sReq = NoBody
    /\ sAnalysis = NoAnalysis
    /\ sEmbedding = Null
    /\ sResults = <<>>
    /\ sMethod = ""
    /\ sStoreData = NullData
    /\ sTrack = "none"
    /\ sCalls = <<>>
    /\ sFailed = Null
    /\ sResponse = NoResponse
    /\ sServed = 0

SearchIdle == SearchOwnIdle /\ user_queries = <<>>

SearchStart ==
    /\ sPc = "idle"
    /\ sReq = NoBody
    /\ sAnalysis = NoAnalysis
    /\ sEmbedding = Null
    /\ sResults = <<>>
    /\ sMethod = ""
    /\ sStoreData = NullData
    /\ sTrack = "none"
    /\ sCalls = <<>>
    /\ sFailed = Null
    /\ sResponse = NoResponse
    /\ sServed = 0
    /\ user_queries = <<>>

\* lines 27-62: the request arrives, is validated and analyzed; a semantic or
\* hybrid request goes on to ask the provider for an embedding
SearchReceive(body) ==
    /\ sPc \in {"idle", "done"}
    /\ sServed < MaxRequests
    /\ sServed' = sServed + 1
    /\ sReq' = body
    /\ sEmbedding' = Null
    /\ sResults' = <<>>
    /\ sMethod' = ""
    /\ sStoreData' = NullData
    /\ sTrack' = "none"
    /\ sFailed' = Null
    /\ IF queryInvalid(body)
       THEN /\ sResponse' = errorResponse(400)
            /\ sAnalysis' = NoAnalysis
            /\ sCalls' = <<>>
            /\ sPc' = "done"
       ELSE /\ sResponse' = NoResponse
            /\ sAnalysis' = analyzeQuery(body.query)
            /\ IF searchTypeOf(body) \in {"semantic", "hybrid"}
               THEN sCalls' = <<"embed">> /\ sPc' = "embed"
               ELSE sCalls' = <<branchOf(searchTypeOf(body), Null)>> /\ sPc' = "search"
    /\ UNCHANGED user_queries
    /\ UNCHANGED exceptSearch

\* generateEmbedding resolved: the embedding is kept and the search of the
\* selected branch is issued
SearchEmbedOk ==
    /\ sPc = "embed"
    /\ sEmbedding' = Vector
    /\ sCalls' = Append(sCalls, branchOf(searchTypeOf(sReq), Vector))
    /\ sPc' = "search"
    /\ UNCHANGED <<sReq, sAnalysis, sResults, sMethod, sStoreData, sTrack, sFailed,
                   sResponse, sServed, user_queries>>
    /\ UNCHANGED exceptSearch

\* generateEmbedding rejected: nothing catches it before the outer catch
\* (lines 188-198), which answers 500
SearchEmbedThrows ==
    /\ sPc = "embed"
    /\ sFailed' = "embed"
    /\ sResponse' = errorResponse(500)
    /\ sPc' = "done"
    /\ UNCHANGED <<sReq, sAnalysis, sEmbedding, sResults, sMethod, sStoreData, sTrack,
                   sCalls, sServed, user_queries>>
    /\ UNCHANGED exceptSearch

\* the store answered the search with an error: if (error) throw error
SearchStoreError ==
    /\ sPc = "search"
    /\ sFailed' = "search"
    /\ sResponse' = errorResponse(500)
    /\ sPc' = "done"
    /\ UNCHANGED <<sReq, sAnalysis, sEmbedding, sResults, sMethod, sStoreData, sTrack,
                   sCalls, sServed, user_queries>>
    /\ UNCHANGED exceptSearch

\* the store answered the search with data (null or rows); lines 126-134 and,
\* when tracking is off, the response of lines 172-186
SearchStoreData(data) ==
    /\ sPc = "search"
    /\ LET branch  == branchOf(searchTypeOf(sReq), sEmbedding)
           results == resultsOf(branch, data)
       IN /\ sStoreData' = data
          /\ sResults' = results
          /\ sMethod' = branch
          /\ IF trackQueryOf(sReq)
             THEN /\ sCalls' = Append(sCalls, "insert user_queries")
                  /\ sPc' = "track"
                  /\ sResponse' = NoResponse
             ELSE /\ sCalls' = sCalls
                  /\ sPc' = "done"
                  /\ sResponse' = successResponse(sReq, sAnalysis, Null, branch, results)
    /\ UNCHANGED <<sReq, sAnalysis, sEmbedding, sTrack, sFailed, sServed, user_queries>>
    /\ UNCHANGED exceptSearch

\* what the handler does once the tracking insert has settled as `outcome`:
\* the id is taken from a stored row, an error value or an exception leaves
\* queryId null, and the success response is returned in every case
trackSettled_Rethrow(outcome, id) ==
    IF outcome = "ok"
    THEN successResponse(sReq, sAnalysis, id, sMethod, sResults)
    ELSE errorResponse(500)

trackSettled(outcome, id) ==
    successResponse(sReq, sAnalysis, IF outcome = "ok" THEN id ELSE Null,
                    sMethod, sResults)

SearchTrack(outcome) ==
    /\ sPc = "track"
    /\ LET id == QueryIdSeq[Len(user_queries) + 1] IN
       /\ user_queries' =
            IF outcome = "ok"
            THEN Append(user_queries,
                        userQueryRow(id, sReq, sAnalysis, sEmbedding, sResults, sMethod))
            ELSE user_queries
       /\ sResponse' = trackSettled(outcome, id)
    /\ sTrack' = outcome
    /\ sPc' = "done"
    /\ UNCHANGED <<sReq, sAnalysis, sEmbedding, sResults, sMethod, sStoreData, sCalls,
                   sFailed, sServed>>
    /\ UNCHANGED exceptSearch

SearchNext ==
    \/ \E body \in SearchBodies : SearchReceive(body)
    \/ SearchEmbedOk
    \/ SearchEmbedThrows
    \/ SearchStoreError
    \/ \E data \in StoreData(sReq.matchCount) : SearchStoreData(data)
    \/ \E outcome \in {"ok", "error", "thrown"} : SearchTrack(outcome)

(***************************************************************************)
(* C1 - C3                                                                 *)
(***************************************************************************)
\* the rows the store handed to the search step (null counts as no rows)
storeRowsObtained == IF sStoreData.isNull THEN <<>> ELSE sStoreData.rows

\* C1 as stated: when the requested strategy is semantic or hybrid and the
\* embedding provider call fails, the request does not fail: the search runs
\* with the fulltext strategy and a success response with method fulltext is
\* returned.
C1_EmbeddingFailureFallsBackToFulltext ==
    (sPc = "done" /\ searchTypeOf(sReq) \in {"semantic", "hybrid"} /\ sFailed = "embed") =>
        /\ sResponse.success
        /\ sResponse.method = "fulltext"

\* C2: when the search step succeeded and tracking was requested, a failed
\* tracking write (error value or exception) leaves the caller with the
\* success response carrying the rows the store returned, the method of the
\* branch taken and foundInDocs, and queryId is none.
C2_TrackingFailureNeverSurfaces ==
    (sPc = "done" /\ sTrack \in {"error", "thrown"}) =>
        /\ sResponse.success
        /\ sResponse.status = 200
        /\ sResponse.method = branchOf(searchTypeOf(sReq), sEmbedding)
        /\ sResponse.foundInDocs = (Len(storeRowsObtained) > 0)
        /\ Len(sResponse.results) = Len(storeRowsObtained)
        /\ \A i \in 1..Len(storeRowsObtained) :
              sResponse.results[i].page_id = storeRowsObtained[i].page_id
        /\ sResponse.queryId = Null

C2_Witness ==
    /\ sPc = "done"
    /\ sTrack = "thrown"
    /\ trackQueryOf(sReq)
    /\ Len(storeRowsObtained) = 2
    /\ sResponse.success

\* C3: in every success response foundInDocs is true exactly when the list
\* obtained from the store is non-empty, and the UserQuery row written for the
\* request carries the same found_in_docs and a result_count equal to the
\* length of that list.
C3_FoundInDocsIffResults ==
    (sPc = "done" /\ sResponse.success) =>
        /\ sResponse.foundInDocs = (Len(storeRowsObtained) > 0)
        /\ sTrack = "ok" =>
              /\ user_queries # <<>>
              /\ user_queries[Len(user_queries)].id = sResponse.queryId
              /\ user_queries[Len(user_queries)].found_in_docs = sResponse.foundInDocs
              /\ user_queries[Len(user_queries)].result_count = Len(storeRowsObtained)

C3_Witness ==
    /\ sPc = "done"
    /\ sResponse.success
    /\ sTrack = "ok"
    /\ sResponse.foundInDocs
    /\ user_queries[Len(user_queries)].result_count = 1

(***************************************************************************)
(* Knowledge upload: chunkText                                             *)
(***************************************************************************)
isTerminator(c) == c \in {".", "!", "?"}

\* text.match(/[^.!?]+[.!?]+/g): from position i, skip terminators, take the
\* longest run of other characters and the terminators that follow it; a run
\* that reaches the end of the text without a terminator matches nothing
\* the first position from i on that is past the text or whose character is
\* not of the kind `term` (terminator or not)
runEnd(text, i, term) ==
    LET stops == { k \in i..(Len(text) + 1) :
                     k = Len(text) + 1 \/ isTerminator(text[k]) # term }
    IN CHOOSE k \in stops : \A m \in stops : k <= m

RECURSIVE matchSentences(_, _)
matchSentences(text, i) ==
    IF i > Len(text) THEN <<>>
    ELSE IF isTerminator(text[i]) THEN matchSentences(text, i + 1)
    ELSE LET j == runEnd(text, i, FALSE)
             k == runEnd(text, j, TRUE)
         IN IF j > Len(text) THEN <<>>
            ELSE <<SubSeq(text, i, k - 1)>> \o matchSentences(text, k)

\* ... || [text]
sentencesOf(text) ==
    IF matchSentences(text, 1) = <<>> THEN <<text>> ELSE matchSentences(text, 1)

\* the loop of lines 21-28: the pair <<chunks, currentChunk>> after it
RECURSIVE chunkLoop(_, _, _, _)
chunkLoop(sentences, chunks, currentChunk, chunkSize) ==
    IF sentences = <<>> THEN <<chunks, currentChunk>>
    ELSE LET sentence == Head(sentences) IN
         IF Len(currentChunk \o sentence) > chunkSize /\ Len(currentChunk) > 0
         THEN chunkLoop(Tail(sentences), Append(chunks, trim(currentChunk)),
                        sentence, chunkSize)
         ELSE chunkLoop(Tail(sentences), chunks,
                        currentChunk \o <<" ">> \o sentence, chunkSize)

\* the chunks before the final filter
candidateChunks(text, chunkSize) ==
    LET after == chunkLoop(sentencesOf(text), <<>>, <<>>, chunkSize) IN
    IF Len(trim(after[2])) > 0 THEN Append(after[1], trim(after[2])) ELSE after[1]

RECURSIVE filterLonger(_, _)
filterLonger(chunks, n) ==
    IF chunks = <<>> THEN <<>>
    ELSE (IF Len(Head(chunks)) > n THEN <<Head(chunks)>> ELSE <<>>)
         \o filterLonger(Tail(chunks), n)

chunkText(text, chunkSize) == filterLonger(candidateChunks(text, chunkSize), 20)

\* default of the chunkSize parameter
DefaultChunkSize == 500

(***************************************************************************)
(* Knowledge upload: POST                                                  *)
(***************************************************************************)
MaxUploads == 2

RECURSIVE repeat(_, _)
repeat(s, n) == IF n = 0 THEN <<>> ELSE s \o repeat(s, n - 1)

\* documents: too short for a chunk, one chunk, several chunks
TextShort == <<"O","k",".">>
TextOne == <<"R","e","s","e","t"," ","t","h","e"," ","r","o","u","t","e","r",".",
             " ","T","h","e","n"," ","c","a","l","l"," ","u","s","!">>
TextLong == repeat(repeat(<<"l","o","r","e","m"," ">>, 50) \o <<"e","n","d",".">>, 2)
TitleA == <<"F","A","Q">>

\* a JSON body {title, content} with either field possibly missing or empty,
\* or a multipart form with or without a file
UploadBodies ==
    [ kind : {"json"}, hasTitle : BOOLEAN, title : {<<>>, TitleA},
      hasContent : BOOLEAN, content : {<<>>, TextShort, TextOne, TextLong},
      hasFile : {FALSE} ]
    \cup
    [ kind : {"multipart"}, hasTitle : {TRUE}, title : {TitleA},
      hasContent : {TRUE}, content : {<<>>, TextOne},
      hasFile : BOOLEAN ]

NoUpload == [ kind |-> "json", hasTitle |-> FALSE, title |-> <<>>,
              hasContent |-> FALSE, content |-> <<>>, hasFile |-> FALSE ]

\* lines 47-77: the validation of either kind of request; the status of the
\* rejection, or 0 when the request is accepted
uploadRejected(body) ==
    IF body.kind = "multipart"
    THEN ~body.hasFile
    ELSE \/ ~body.hasTitle \/ body.title = <<>>
         \/ ~body.hasContent \/ body.content = <<>>

uploadResponse(status, success, id, created, total, generated, err) ==
    [ status |-> status, success |-> success, document_id |-> id,
      chunks_created |-> created, total_chunks |-> total,
      embedding_generated |-> generated, embedding_error |-> err ]

NoUploadResponse == uploadResponse(0, FALSE, 0, 0, 0, FALSE, Null)

\* the row of lines 82-88; url is manual://<Date.now()>, and the embedding
\* column is null until line 111 sets it
pageRow(id, body, now) ==
    [ id |-> id, title |-> body.title, content |-> body.content,
      url |-> <<"manual", now>>, embedding |-> Null, embedding_token_count |-> 0 ]

IngestIdle ==
    /\ iPc = "off"
    /\ iReq = NoUpload
    /\ iDocPage = 0
    /\ iEmbedding = Null
    /\ iEmbeddingError = Null
    /\ iChunks = <<>>
    /\ iIdx = 0
    /\ iInserted = 0
    /\ iCalls = <<>>
    /\ iResponse = NoUploadResponse
    /\ iServed = 0
    /\ iClock = 0
    /\ documentation_chunks = <<>>
    /\ knowledge_sources = {}
    /\ feed_items = <<>>
    /\ knowledge_content = <<>>

IngestStart ==
    /\ iPc = "idle"
    /\ iReq = NoUpload
    /\ iDocPage = 0
    /\ iEmbedding = Null
    /\ iEmbeddingError = Null
    /\ iChunks = <<>>
    /\ iIdx = 0
    /\ iInserted = 0
    /\ iCalls = <<>>
    /\ iResponse = NoUploadResponse
    /\ iServed = 0
    /\ iClock = 0
    /\ documentation_chunks = <<>>
    /\ knowledge_sources = {}
    /\ feed_items = <<>>
    /\ knowledge_content = <<>>

PagesEmpty == documentation_pages = <<>>

\* lines 37-90: a request arrives and is parsed and validated; an accepted
\* request issues the insert of the page
IngestReceive(body) ==
    /\ iPc \in {"idle", "done"}
    /\ iServed < MaxUploads
    /\ iServed' = iServed + 1
    /\ iReq' = body
    /\ iDocPage' = 0
    /\ iEmbedding' = Null
    /\ iEmbeddingError' = Null
    /\ iChunks' = <<>>
    /\ iIdx' = 0
    /\ iInserted' = 0
    /\ iCalls' = <<>>
    /\ IF uploadRejected(body)
       THEN /\ iResponse' = uploadResponse(400, FALSE, 0, 0, 0, FALSE, Null)
            /\ iPc' = "done"
       ELSE /\ iResponse' = NoUploadResponse
            /\ iPc' = "page"
    /\ UNCHANGED <<iClock, documentation_pages, documentation_chunks, knowledge_sources,
                   feed_items, knowledge_content>>
    /\ UNCHANGED exceptIngest

\* the clock moves on
IngestTick ==
    /\ iPc \in {"idle", "done"}
    /\ iClock < iServed
    /\ iClock' = iClock + 1
    /\ UNCHANGED <<iPc, iReq, iDocPage, iEmbedding, iEmbeddingError, iChunks, iIdx,
                   iInserted, iCalls, iResponse, iServed, documentation_pages,
                   documentation_chunks, knowledge_sources,
                   feed_items, knowledge_content>>
    /\ UNCHANGED exceptIngest

\* lines 80-98: the insert of the page failed
IngestPageError ==
    /\ iPc = "page"
    /\ iResponse' = uploadResponse(500, FALSE, 0, 0, 0, FALSE, Null)
    /\ iCalls' = Append(iCalls, "insert page")
    /\ iPc' = "done"
    /\ UNCHANGED <<iReq, iDocPage, iEmbedding, iEmbeddingError, iChunks, iIdx, iInserted,
                   iServed, iClock, documentation_pages, documentation_chunks,
                   knowledge_sources, feed_items, knowledge_content>>
    /\ UNCHANGED exceptIngest

\* lines 80-105: the insert of the page succeeded; the embedding of the
\* document is requested
IngestPageInserted ==
    /\ iPc = "page"
    /\ LET id == Len(documentation_pages) + 1 IN
       /\ documentation_pages' = Append(documentation_pages, pageRow(id, iReq, iClock))
       /\ iDocPage' = id
    /\ iCalls' = Append(iCalls, "insert page")
    /\ iPc' = "embed"
    /\ UNCHANGED <<iReq, iEmbedding, iEmbeddingError, iChunks, iIdx, iInserted, iResponse,
                   iServed, iClock, documentation_chunks, knowledge_sources,
                   feed_items, knowledge_content>>
    /\ UNCHANGED exceptIngest

\* the response of lines 153-165
uploadDone(inserted, total, embedding, err) ==
    uploadResponse(200, TRUE, iDocPage, inserted, total, embedding # Null, err)

\* lines 100-121: generateEmbedding settles; on success the page is updated
\* (the update's own result is not looked at, its exception is caught), then
\* the content is chunked
IngestDocEmbed(embedOk, update) ==
    /\ iPc = "embed"
    /\ update \in (IF embedOk THEN {"ok", "error", "thrown"} ELSE {"none"})
    /\ iEmbedding' = IF embedOk THEN Vector ELSE Null
    /\ iCalls' = iCalls \o (IF embedOk THEN <<"embed document", "update page">>
                                      ELSE <<"embed document throws">>)
    /\ iEmbeddingError' = IF embedOk /\ update # "thrown" THEN Null ELSE "message"
    /\ documentation_pages' =
          IF update = "ok"
          THEN [documentation_pages EXCEPT ![iDocPage].embedding = Vector]
          ELSE documentation_pages
    /\ LET chunks == chunkText(iReq.content, DefaultChunkSize) IN
       /\ iChunks' = chunks
       /\ iIdx' = 0
       /\ IF chunks = <<>>
          THEN /\ iPc' = "done"
               /\ iResponse' = uploadDone(0, 0, iEmbedding', iEmbeddingError')
          ELSE /\ iPc' = "chunk"
               /\ iResponse' = iResponse
    /\ UNCHANGED <<iReq, iDocPage, iInserted, iServed, iClock, documentation_chunks,
                   knowledge_sources, feed_items, knowledge_content>>
    /\ UNCHANGED exceptIngest

\* lines 123-165: one turn of the chunk loop: the chunk's embedding, then its
\* insert; a chunk is stored only when both succeed; after the last chunk the
\* response is returned
IngestChunk(embedOk, insert) ==
    /\ iPc = "chunk"
    /\ insert \in (IF embedOk THEN {"ok", "error", "thrown"} ELSE {"none"})
    /\ LET stored == embedOk /\ insert = "ok"
           row == [ page_id |-> iDocPage, content |-> iChunks[iIdx + 1],
                    chunk_index |-> iIdx, embedding |-> Vector ]
       IN /\ documentation_chunks' =
                IF stored THEN Append(documentation_chunks, row) ELSE documentation_chunks
          /\ iInserted' = IF stored THEN iInserted + 1 ELSE iInserted
    /\ iCalls' = iCalls \o (IF embedOk THEN <<"embed chunk", "insert chunk">>
                                      ELSE <<"embed chunk throws">>)
    /\ iIdx' = iIdx + 1
    /\ IF iIdx' = Len(iChunks)
       THEN /\ iPc' = "done"
            /\ iResponse' = uploadDone(iInserted', Len(iChunks), iEmbedding, iEmbeddingError)
       ELSE /\ iPc' = "chunk"
            /\ iResponse' = iResponse
    /\ UNCHANGED <<iReq, iDocPage, iEmbedding, iEmbeddingError, iChunks, iServed, iClock,
                   documentation_pages, knowledge_sources, feed_items,
                   knowledge_content>>
    /\ UNCHANGED exceptIngest

\* admin feed endpoint (metrics/route.ts lines 402-495): a valid request
\* upserts the source by name, inserts a feed item with link
\* .../feed/<Date.now()> and inserts a knowledge_content row with that link as
\* url; `outcome` names the first store call that fails, or is ok
AdminFeed(body, outcome) ==
    /\ iPc \in {"idle", "done"}
    /\ iServed < MaxUploads
    /\ body.kind = "json"
    /\ iServed' = iServed + 1
    /\ LET valid == ~uploadRejected(body)
           link == <<"feed", iClock>>
       IN /\ knowledge_sources' =
                IF valid /\ outcome # "source"
                THEN knowledge_sources \cup {"Manual Admin Feed"}
                ELSE knowledge_sources
          /\ feed_items' =
                IF valid /\ outcome \in {"knowledge", "ok"}
                THEN Append(feed_items, [ title |-> body.title, link |-> link ])
                ELSE feed_items
          /\ knowledge_content' =
                IF valid /\ outcome = "ok"
                THEN Append(knowledge_content,
                            [ title |-> body.title, content |-> body.content,
                              url |-> link ])
                ELSE knowledge_content
    /\ UNCHANGED <<iPc, iReq, iDocPage, iEmbedding, iEmbeddingError, iChunks, iIdx,
                   iInserted, iCalls, iResponse, iClock, documentation_pages,
                   documentation_chunks>>
    /\ UNCHANGED exceptIngest

IngestNext ==
    \/ \E body \in UploadBodies : IngestReceive(body)
    \/ IngestTick
    \/ IngestPageError
    \/ IngestPageInserted
    \/ \E embedOk \in BOOLEAN, update \in {"none", "ok", "error", "thrown"} :
          IngestDocEmbed(embedOk, update)
    \/ \E embedOk \in BOOLEAN, insert \in {"none", "ok", "error", "thrown"} :
          IngestChunk(embedOk, insert)
    \/ \E body \in UploadBodies, outcome \in {"ok", "source", "feed", "knowledge"} :
          AdminFeed(body, outcome)

(***************************************************************************)
(* C4                                                                      *)
(***************************************************************************)
\* C4 as stated: ingesting the same document (same title, unchanged content)
\* two or more times leaves exactly one KnowledgePage row for it: no two rows
\* of the page table hold the same title and content.
C4_ReingestionCreatesNoSecondRow ==
    \A i, j \in 1..Len(documentation_pages) :
        (/\ documentation_pages[i].title = documentation_pages[j].title
         /\ documentation_pages[i].content = documentation_pages[j].content) => i = j

(***************************************************************************)
(* C17 - C18                                                               *)
(***************************************************************************)
\* the title or the content of an ingestion request is missing or empty; a
\* file upload takes them from the name and the text of the file
ingestInvalid(body) ==
    IF body.kind = "multipart"
    THEN ~body.hasFile \/ body.title = <<>> \/ body.content = <<>>
    ELSE ~body.hasTitle \/ body.title = <<>> \/ ~body.hasContent \/ body.content = <<>>

\* C17: a search request whose query is missing, empty or blank, and an
\* ingestion request (JSON or file upload) whose title or content is missing
\* or empty, is answered with a 4xx error and issues no provider call and no
\* store call.
C17_InvalidRequestsAreRejectedBeforeAnyCall ==
    /\ (sPc \in {"embed", "search", "track", "done"} /\ queryInvalid(sReq)) =>
          /\ sPc = "done"
          /\ sResponse.status \in 400..499
          /\ sCalls = <<>>
    /\ (iPc \in {"page", "embed", "chunk", "done"} /\ ingestInvalid(iReq)) =>
          /\ iPc = "done"
          /\ iResponse.status \in 400..499
          /\ iCalls = <<>>

\* how many entries of the call log are `call`
callCount(calls, call) == Cardinality({ k \in 1..Len(calls) : calls[k] = call })

\* C18: when the embedding of the document fails the page is stored without
\* an embedding and the response reports embedding_generated = false with the
\* error message; every chunk whose embedding call fails is still stored,
\* without an embedding; the request ends with a success response.
C18_EmbeddingFailureNeverPreventsPersistence ==
    /\ (iPc \in {"chunk", "done"} /\ callCount(iCalls, "embed document throws") > 0) =>
          /\ documentation_pages[iDocPage].embedding = Null
          /\ iPc = "done" =>
                /\ iResponse.status = 200 /\ iResponse.success
                /\ iResponse.embedding_generated = FALSE
                /\ iResponse.embedding_error # Null
    /\ (iPc \in {"chunk", "done"} /\ iDocPage # 0) =>
          /\ Cardinality({ k \in 1..Len(documentation_chunks) :
                             /\ documentation_chunks[k].page_id = iDocPage
                             /\ documentation_chunks[k].embedding = Null })
                = callCount(iCalls, "embed chunk throws")
          /\ (iPc = "done" /\ callCount(iCalls, "embed chunk throws") > 0) =>
                iResponse.status = 200 /\ iResponse.success

(***************************************************************************)
(* C20                                                                     *)
(***************************************************************************)
\* the calls of a search request that only read: the provider call and the
\* three searches
SearchReads == {"embed", "semantic", "hybrid", "fulltext"}

\* tracking is on unless the body switches it off
trackingRequested(body) == body.trackQuery # "false"

\* C20: a search request issues no store write when tracking is not
\* requested, when it is rejected by validation or when its search step
\* fails; when tracking is requested and the search step succeeds it issues
\* exactly one user_queries insert and no other write; the table only ever
\* changes by the row of that insert.
C20_SearchWritesOnlyTheTrackingRow ==
    /\ [](sPc = "done" =>
            /\ \A k \in 1..Len(sCalls) :
                  sCalls[k] \in SearchReads \/ sCalls[k] = "insert user_queries"
            /\ callCount(sCalls, "insert user_queries") =
                  IF /\ trackingRequested(sReq)
                     /\ ~queryInvalid(sReq)
                     /\ sFailed = Null
                  THEN 1 ELSE 0)
    /\ [][user_queries' # user_queries =>
            /\ sPc = "track"
            /\ callCount(sCalls, "insert user_queries") = 1
            /\ Len(user_queries') = Len(user_queries) + 1
            /\ SubSeq(user_queries', 1, Len(user_queries)) = user_queries]_vars

C20_Witness ==
    /\ sPc = "done"
    /\ sReq.trackQuery = Null
    /\ sReq.searchType = "fulltext"
    /\ sTrack = "ok"
    /\ sCalls = <<"fulltext", "insert user_queries">>
    /\ Len(user_queries) = 1

(***************************************************************************)
(* Feed event detector: detectEvents                                       *)
(***************************************************************************)
NumRunners == 2
MaxDetectRuns == 3

Runners == 1..NumRunners

\* feed items: keywords and sentiment_score (in tenths)
item(kws, sentiment) == [ keywords |-> kws, sentiment_score |-> sentiment ]

\* observation batches: alpha 3 times and beta once; alpha 5 times and beta 3
\* times; alpha twice (below the threshold); gamma 3 times with strong
\* sentiment; beta and gamma 4 times each; no item
Batches == {
    << item(<<"alpha", "beta">>, 0), item(<<"alpha">>, 1), item(<<"alpha">>, 0) >>,
    << item(<<"beta", "alpha">>, 0), item(<<"alpha">>, 0), item(<<"alpha", "beta">>, -2),
       item(<<"alpha">>, 0), item(<<"beta", "alpha">>, 0) >>,
    << item(<<"alpha">>, 0), item(<<"alpha">>, 0) >>,
    << item(<<"gamma">>, 8), item(<<"gamma">>, 7), item(<<"gamma">>, 6) >>,
    << item(<<"beta">>, -6), item(<<"gamma", "beta">>, -6), item(<<"gamma", "beta">>, -6),
       item(<<"gamma", "beta">>, -4), item(<<"gamma">>, 0) >>,
    << >> }

\* all keyword mentions of a batch, in the order the two forEach loops visit them
RECURSIVE mentions(_)
mentions(feedItems) ==
    IF feedItems = <<>> THEN <<>>
    ELSE [i \in 1..Len(Head(feedItems).keywords) |->
            [ keyword |-> Head(feedItems).keywords[i], item |-> Head(feedItems) ]]
         \o mentions(Tail(feedItems))

\* keys of keywordFrequency in insertion order
RECURSIVE keysOf(_, _)
keysOf(ms, seen) ==
    IF ms = <<>> THEN <<>>
    ELSE IF Head(ms).keyword \in seen THEN keysOf(Tail(ms), seen)
    ELSE <<Head(ms).keyword>> \o keysOf(Tail(ms), seen \cup {Head(ms).keyword})

RECURSIVE itemsOf(_, _)
itemsOf(ms, keyword) ==
    IF ms = <<>> THEN <<>>
    ELSE (IF Head(ms).keyword = keyword THEN <<Head(ms).item>> ELSE <<>>)
         \o itemsOf(Tail(ms), keyword)

\* keywordFrequency[keyword]
keywordFrequency(feedItems, keyword) ==
    LET items == itemsOf(mentions(feedItems), keyword) IN
    [ keyword |-> keyword, count |-> Len(items), items |-> items ]

\* Array.prototype.sort((a, b) => b.count - a.count): stable, descending
RECURSIVE insertByCount(_, _)
insertByCount(sorted, e) ==
    IF sorted = <<>> THEN <<e>>
    ELSE IF Head(sorted).count >= e.count
         THEN <<Head(sorted)>> \o insertByCount(Tail(sorted), e)
         ELSE <<e>> \o sorted

RECURSIVE sortByCount(_, _)
sortByCount(entries, sorted) ==
    IF entries = <<>> THEN sorted
    ELSE sortByCount(Tail(entries), insertByCount(sorted, Head(entries)))

RECURSIVE filterCount(_, _)
filterCount(entries, threshold) ==
    IF entries = <<>> THEN <<>>
    ELSE (IF Head(entries).count >= threshold THEN <<Head(entries)>> ELSE <<>>)
         \o filterCount(Tail(entries), threshold)

\* the keywords mentioned 3 or more times, most mentioned first
potentialEvents(feedItems) ==
    LET keys == keysOf(mentions(feedItems), {})
        entries == [i \in 1..Len(keys) |-> keywordFrequency(feedItems, keys[i])]
    IN sortByCount(filterCount(entries, 3), <<>>)

RECURSIVE sumSentiment(_)
sumSentiment(items) ==
    IF items = <<>> THEN 0 ELSE Head(items).sentiment_score + sumSentiment(Tail(items))

min(a, b) == IF a < b THEN a ELSE b
abs(a) == IF a < 0 THEN 0 - a ELSE a

\* is_active is not set by the insert: the column default
DefaultIsActive == TRUE

\* the row of lines 140-151; avgSentiment = sum / n is compared in tenths
eventRow(e) ==
    LET sum == sumSentiment(e.items)
        n == Len(e.items)
    IN [ title |-> e.keyword,
         event_type |-> IF e.count >= 5 THEN "breaking_news" ELSE "trend",
         urgency_score |-> min(10, e.count * 2),
         virality_score |-> min(10, e.count),
         controversy_score |-> IF abs(sum) > 5 * n THEN 8 ELSE 3,
         audience_polarity |-> IF sum > 3 * n THEN "right"
                               ELSE IF sum < 0 - 3 * n THEN "left" ELSE "neutral",
         contributing_item_count |-> e.count,
         is_active |-> DefaultIsActive ]

\* the indexes of the active rows with this title
activeRows(events, keyword) ==
    { i \in 1..Len(events) : events[i].title = keyword /\ events[i].is_active }

\* select('id').eq('title', keyword).eq('is_active', true).single(): the row
\* when exactly one matches, and no data (0) when none or several match
existing_NeverFound(events, keyword) == 0

existing(events, keyword) ==
    IF Cardinality(activeRows(events, keyword)) = 1
    THEN CHOOSE i \in activeRows(events, keyword) : TRUE
    ELSE 0

DetectIdle ==
    /\ dBatch = <<>>
    /\ dPc = [r \in Runners |-> "off"]
    /\ dQueue = [r \in Runners |-> <<>>]
    /\ dStarted = 0
    /\ detected_events = <<>>

\* an event of an earlier day that has been deactivated since
PastEvent ==
    [ title |-> "alpha", event_type |-> "trend", urgency_score |-> 8,
      virality_score |-> 4, controversy_score |-> 3, audience_polarity |-> "neutral",
      contributing_item_count |-> 4, is_active |-> FALSE ]

DetectStart ==
    /\ dBatch \in Batches
    /\ dPc = [r \in Runners |-> "idle"]
    /\ dQueue = [r \in Runners |-> <<>>]
    /\ dStarted = 0
    /\ detected_events \in { <<>>, <<PastEvent>> }

\* lines 107-124: a run groups the batch and reaches the first select (or ends
\* when no keyword meets the threshold); runs follow one another
DetectBegin(r) ==
    /\ \A q \in Runners : dPc[q] \in {"idle", "done"}
    /\ dStarted < MaxDetectRuns
    /\ dStarted' = dStarted + 1
    /\ dQueue' = [dQueue EXCEPT ![r] = potentialEvents(dBatch)]
    /\ dPc' = [dPc EXCEPT ![r] = IF potentialEvents(dBatch) = <<>> THEN "done" ELSE "select"]
    /\ UNCHANGED <<dBatch, detected_events>>
    /\ UNCHANGED exceptDetect

\* lines 125-132, 154: the select answers; an existing event ends the turn of
\* the loop with nothing written
DetectSelect(r) ==
    /\ dPc[r] = "select"
    /\ IF existing(detected_events, Head(dQueue[r]).keyword) # 0
       THEN /\ dQueue' = [dQueue EXCEPT ![r] = Tail(dQueue[r])]
            /\ dPc' = [dPc EXCEPT ![r] = IF Tail(dQueue[r]) = <<>> THEN "done" ELSE "select"]
       ELSE /\ dQueue' = dQueue
            /\ dPc' = [dPc EXCEPT ![r] = "insert"]
    /\ UNCHANGED <<dBatch, dStarted, detected_events>>
    /\ UNCHANGED exceptDetect

\* lines 133-153: the insert of the new event
DetectInsert(r) ==
    /\ dPc[r] = "insert"
    /\ detected_events' = Append(detected_events, eventRow(Head(dQueue[r])))
    /\ dQueue' = [dQueue EXCEPT ![r] = Tail(dQueue[r])]
    /\ dPc' = [dPc EXCEPT ![r] = IF Tail(dQueue[r]) = <<>> THEN "done" ELSE "select"]
    /\ UNCHANGED <<dBatch, dStarted>>
    /\ UNCHANGED exceptDetect

DetectNext ==
    \/ \E r \in Runners : DetectBegin(r)
    \/ \E r \in Runners : DetectSelect(r)
    \/ \E r \in Runners : DetectInsert(r)

\* the same lines when requests overlap: a run begins while others are under
\* way
DetectBeginOverlapping(r) ==
    /\ dPc[r] \in {"idle", "done"}
    /\ dStarted < MaxDetectRuns
    /\ dStarted' = dStarted + 1
    /\ dQueue' = [dQueue EXCEPT ![r] = potentialEvents(dBatch)]
    /\ dPc' = [dPc EXCEPT ![r] = IF potentialEvents(dBatch) = <<>> THEN "done" ELSE "select"]
    /\ UNCHANGED <<dBatch, detected_events>>
    /\ UNCHANGED exceptDetect

DetectOverlappingNext ==
    \/ \E r \in Runners : DetectBeginOverlapping(r)
    \/ \E r \in Runners : DetectSelect(r)
    \/ \E r \in Runners : DetectInsert(r)

(***************************************************************************)
(* C5, C6                                                                  *)
(***************************************************************************)
Topics == {"alpha", "beta", "gamma"}

observations(topic) == keywordFrequency(dBatch, topic).count

noRunInProgress == \A r \in Runners : dPc[r] \in {"idle", "done"}

C6_ExistingRecordIsReinforced ==
    [][\A r \in Runners :
          (/\ dPc[r] = "select"
           /\ existing(detected_events, Head(dQueue[r]).keyword) # 0
           /\ dPc'[r] # "select" \/ dQueue'[r] # dQueue[r])
          => LET i == existing(detected_events, Head(dQueue[r]).keyword) IN
             detected_events'[i].contributing_item_count
                > detected_events[i].contributing_item_count]_vars

(***************************************************************************)
(* C28                                                                     *)
(***************************************************************************)
\* C28: however the steps of two or more concurrent runs over the same batch
\* interleave, no topic ever has more than one active record, and a topic
\* that has several active records never gets a further one.
C28_ConcurrentRunsOneRecordPerTopic ==
    [][\A t \in Topics :
          /\ Cardinality(activeRows(detected_events', t)) <= 1
          /\ Cardinality(activeRows(detected_events, t)) > 1 =>
                activeRows(detected_events', t) = activeRows(detected_events, t)]_vars

(***************************************************************************)
(* Embedding service: generateMissingEmbeddings                            *)
(***************************************************************************)
\* pages per provider call: 100 in the source, scaled down
BATCH_SIZE == 2
NumPages == 3

PageNumbers == 1..NumPages

\* body.limit || 1000
Limits == {2, 1000}

\* usage.total_tokens reported for a batch
TokenTotals == {6}

\* Math.round(total / n) of a positive quotient
roundDiv(total, n) == (2 * total + n) \div (2 * n)

\* the set as a sequence in ascending order
RECURSIVE ascending(_)
ascending(S) ==
    IF S = {} THEN <<>>
    ELSE LET m == CHOOSE x \in S : \A y \in S : x <= y
         IN <<m>> \o ascending(S \ {m})

missingPages_All(pages) == 1..Len(pages)

\* .is('embedding', null)
missingPages(pages) == { i \in 1..Len(pages) : pages[i].embedding = Null }

\* pages.slice(i, i + BATCH_SIZE)
batchAt(pages, i) == SubSeq(pages, i + 1, min(i + BATCH_SIZE, Len(pages)))

inBatch(pages, i) == { batchAt(pages, i)[k] : k \in 1..Len(batchAt(pages, i)) }

NoUpdate == [ status |-> "none", tokens |-> 0 ]

\* line 363: (totalTokens / 1000) * 0.00002, held in units of 10^-8 dollars
totalCostOf(tokens) == tokens * 2

NoRun == [ status |-> "none", processed |-> 0, failed |-> 0, totalCost |-> 0 ]

EmbedIdle ==
    /\ ePc = "off"
    /\ ePages = <<>>
    /\ eI = 0
    /\ eProcessed = 0
    /\ eFailed = 0
    /\ eTotalTokens = 0
    /\ eUpd = [p \in PageNumbers |-> NoUpdate]
    /\ eLog = <<>>
    /\ eResult = NoRun

storedPage(id, embedding, tokens) ==
    [ id |-> id, title |-> TitleA, content |-> TextShort, url |-> <<"manual", id>>,
      embedding |-> embedding, embedding_token_count |-> tokens ]

\* the store holds NumPages pages, none embedded or only the first one
EmbedStart ==
    /\ ePc = "idle"
    /\ ePages = <<>>
    /\ eI = 0
    /\ eProcessed = 0
    /\ eFailed = 0
    /\ eTotalTokens = 0
    /\ eUpd = [p \in PageNumbers |-> NoUpdate]
    /\ eLog = <<>>
    /\ eResult = NoRun
    /\ documentation_pages \in
          { [p \in PageNumbers |-> storedPage(p, Null, 0)],
            [p \in PageNumbers |->
                IF p = 1 THEN storedPage(p, Vector, 6) ELSE storedPage(p, Null, 0)] }

moreBatches == eI + BATCH_SIZE < Len(ePages)

\* the catch of lines 351-354
failedAfterCatch_One(failed, batch) == failed + 1

failedAfterCatch_Unchanged(failed, batch) == failed

failedAfterCatch(failed, batch) == failed + Len(batch)

\* the forEach of lines 341-349 over the settled updates of the batch
countResults_AllOrNothing(batch) ==
    LET errors == { p \in batch : eUpd[p].status = "error" } IN
    [ processed |-> IF errors = {} THEN Cardinality(batch) ELSE 0,
      failed    |-> IF errors = {} THEN 0 ELSE Cardinality(batch) ]

countResults(batch) ==
    [ processed |-> Cardinality({ p \in batch : eUpd[p].status # "error" }),
      failed    |-> Cardinality({ p \in batch : eUpd[p].status = "error" }) ]

RECURSIVE sumTokens(_)
sumTokens(S) ==
    IF S = {} THEN 0
    ELSE LET p == CHOOSE x \in S : TRUE IN eUpd[p].tokens + sumTokens(S \ {p})

\* the run moves past the batch at eI with these counters
EmbedAdvance(processed, failed, tokens) ==
    /\ eProcessed' = processed
    /\ eFailed' = failed
    /\ eTotalTokens' = tokens
    /\ IF moreBatches
       THEN /\ eI' = eI + BATCH_SIZE
            /\ ePc' = "embed"
            /\ eResult' = eResult
       ELSE /\ eI' = eI
            /\ ePc' = "done"
            /\ eResult' = [ status |-> "returned", processed |-> processed,
                            failed |-> failed, totalCost |-> totalCostOf(tokens) ]

\* lines 273-304 behind the route's POST: the select of the pages without an
\* embedding answers with `selected`; nothing selected returns at once
EmbedBegin(limit, selected) ==
    /\ ePc \in {"idle", "done"}
    /\ selected \subseteq missingPages(documentation_pages)
    /\ Cardinality(selected) = min(limit, Cardinality(missingPages(documentation_pages)))
    /\ ePages' = ascending(selected)
    /\ eI' = 0
    /\ eProcessed' = 0
    /\ eFailed' = 0
    /\ eTotalTokens' = 0
    /\ eUpd' = [p \in PageNumbers |-> NoUpdate]
    /\ eLog' = <<>>
    /\ IF selected = {}
       THEN /\ ePc' = "done"
            /\ eResult' = [ status |-> "returned", processed |-> 0, failed |-> 0,
                            totalCost |-> 0 ]
       ELSE /\ ePc' = "embed"
            /\ eResult' = NoRun
    /\ UNCHANGED documentation_pages
    /\ UNCHANGED exceptEmbed

\* lines 287-290: the select failed; the run raises and the route answers 500
EmbedSelectError ==
    /\ ePc \in {"idle", "done"}
    /\ ePages' = <<>>
    /\ eI' = 0
    /\ eProcessed' = 0
    /\ eFailed' = 0
    /\ eTotalTokens' = 0
    /\ eUpd' = [p \in PageNumbers |-> NoUpdate]
    /\ eLog' = <<>>
    /\ ePc' = "done"
    /\ eResult' = [ status |-> "raised", processed |-> 0, failed |-> 0, totalCost |-> 0 ]
    /\ UNCHANGED documentation_pages
    /\ UNCHANGED exceptEmbed

\* lines 308-323, 351-354: the provider call of the batch throws, or answers
\* with fewer embeddings than texts (embeddings[index] is then undefined and
\* building the updates throws): the catch counts the whole batch as failed
EmbedCallFails(how) ==
    /\ ePc = "embed"
    /\ how \in {"throws", "short"}
    /\ eLog' = Append(eLog, how)
    /\ EmbedAdvance(eProcessed, failedAfterCatch(eFailed, batchAt(ePages, eI)), eTotalTokens)
    /\ UNCHANGED <<ePages, eUpd, documentation_pages>>
    /\ UNCHANGED exceptEmbed

\* lines 308-338: the provider answers with one embedding per text and the
\* aggregate token count; one update per page of the batch is issued
EmbedCallOk(total) ==
    /\ ePc = "embed"
    /\ eLog' = Append(eLog, "ok")
    /\ eUpd' = [p \in PageNumbers |->
                  IF p \in inBatch(ePages, eI)
                  THEN [ status |-> "pending",
                         tokens |-> roundDiv(total, Len(batchAt(ePages, eI))) ]
                  ELSE eUpd[p]]
    /\ ePc' = "updates"
    /\ UNCHANGED <<ePages, eI, eProcessed, eFailed, eTotalTokens, eResult,
                   documentation_pages>>
    /\ UNCHANGED exceptEmbed

\* an update of lines 326-336 settles: it is applied, the store answers with an
\* error value, or the promise is rejected
EmbedSettle(p, outcome) ==
    /\ eUpd[p].status = "pending"
    /\ eUpd' = [eUpd EXCEPT ![p].status = outcome]
    /\ documentation_pages' =
          IF outcome = "ok"
          THEN [documentation_pages EXCEPT ![p].embedding = Vector,
                                           ![p].embedding_token_count = eUpd[p].tokens]
          ELSE documentation_pages
    /\ UNCHANGED <<ePc, ePages, eI, eProcessed, eFailed, eTotalTokens, eLog, eResult>>
    /\ UNCHANGED exceptEmbed

EmbedSettleOk(p) == EmbedSettle(p, "ok")

\* lines 338-349: Promise.all resolves once every update of the batch has
\* settled without a rejection; the results are counted one by one
EmbedAwaitAll ==
    /\ ePc = "updates"
    /\ \A p \in inBatch(ePages, eI) : eUpd[p].status \in {"ok", "error"}
    /\ LET batch == inBatch(ePages, eI)
           counted == countResults(batch)
       IN EmbedAdvance(eProcessed + counted.processed, eFailed + counted.failed,
                       eTotalTokens + sumTokens({ p \in batch : eUpd[p].status = "ok" }))
    /\ UNCHANGED <<ePages, eUpd, eLog, documentation_pages>>
    /\ UNCHANGED exceptEmbed

\* lines 338, 351-354: Promise.all rejects as soon as one update is rejected;
\* the catch counts the whole batch as failed and the loop goes on
EmbedAwaitReject ==
    /\ ePc = "updates"
    /\ \E p \in inBatch(ePages, eI) : eUpd[p].status = "rejected"
    /\ EmbedAdvance(eProcessed, failedAfterCatch(eFailed, batchAt(ePages, eI)), eTotalTokens)
    /\ UNCHANGED <<ePages, eUpd, eLog, documentation_pages>>
    /\ UNCHANGED exceptEmbed

\* generate-embeddings/route.ts line 12: the invocation is cut off at
\* maxDuration; updates not yet applied are lost with it
EmbedAbort ==
    /\ ePc \in {"embed", "updates"}
    /\ ePc' = "idle"
    /\ eUpd' = [p \in PageNumbers |-> NoUpdate]
    /\ eResult' = NoRun
    /\ UNCHANGED <<ePages, eI, eProcessed, eFailed, eTotalTokens, eLog, documentation_pages>>
    /\ UNCHANGED exceptEmbed

EmbedNext ==
    \/ \E limit \in Limits, selected \in SUBSET PageNumbers : EmbedBegin(limit, selected)
    \/ EmbedSelectError
    \/ \E how \in {"throws", "short"} : EmbedCallFails(how)
    \/ \E total \in TokenTotals : EmbedCallOk(total)
    \/ \E p \in PageNumbers : EmbedSettleOk(p)
    \/ \E p \in PageNumbers, outcome \in {"error", "rejected"} : EmbedSettle(p, outcome)
    \/ EmbedAwaitAll
    \/ EmbedAwaitReject
    \/ EmbedAbort

(***************************************************************************)
(* C7 - C9                                                                 *)
(***************************************************************************)
\* Math.ceil(pages.length / BATCH_SIZE)
batchCount == (Len(ePages) + BATCH_SIZE - 1) \div BATCH_SIZE

\* the step taken is the provider call of the current batch throwing
callThrowsStep ==
    /\ ePc = "embed"
    /\ eLog' = Append(eLog, "throws")

\* C7: when the embedding call of a batch throws, failed grows by exactly the
\* batch size, processed is unchanged, no page of the batch is written and no
\* update is issued for it, the run goes on to the next batch if there is one
\* and otherwise returns its result; a run that returns has attempted every
\* batch.
C7_ThrowingBatchCountsAsFailedAndRunGoesOn ==
    /\ [][callThrowsStep =>
            /\ eFailed' = eFailed + Len(batchAt(ePages, eI))
            /\ eProcessed' = eProcessed
            /\ documentation_pages' = documentation_pages
            /\ \A p \in inBatch(ePages, eI) : eUpd'[p].status = "none"
            /\ IF eI + BATCH_SIZE < Len(ePages)
               THEN ePc' = "embed" /\ eI' = eI + BATCH_SIZE
               ELSE /\ ePc' = "done"
                    /\ eResult'.status = "returned"
                    /\ eResult'.failed = eFailed'
                    /\ eResult'.processed = eProcessed]_vars
    /\ [](eResult.status = "returned" => Len(eLog) = batchCount)

C7_Witness ==
    /\ ePc = "done"
    /\ eLog = <<"throws", "ok">>
    /\ eResult.status = "returned"
    /\ eResult.failed = 2
    /\ eResult.processed = 1

\* the step taken is the counting of a batch whose updates have all settled
\* with a store answer (applied, or an error value)
countingStep ==
    /\ ePc = "updates"
    /\ ePc' \in {"embed", "done"}
    /\ \A p \in inBatch(ePages, eI) : eUpd[p].status \in {"ok", "error"}

\* C8: when the embedding call of a batch succeeded and the store answered
\* some updates with an error, exactly those pages are counted as failed and
\* every other page of the batch as processed; the run goes on or returns.
C8_ItemErrorsCountedItemByItem ==
    [][countingStep =>
          /\ eFailed' = eFailed
                + Cardinality({ p \in inBatch(ePages, eI) : eUpd[p].status = "error" })
          /\ eProcessed' = eProcessed
                + Cardinality({ p \in inBatch(ePages, eI) : eUpd[p].status = "ok" })
          /\ \A p \in inBatch(ePages, eI) :
                eUpd[p].status = "ok" <=> documentation_pages[p].embedding # Null
          /\ IF eI + BATCH_SIZE < Len(ePages)
             THEN ePc' = "embed" /\ eI' = eI + BATCH_SIZE
             ELSE ePc' = "done" /\ eResult'.status = "returned"]_vars

C8_Witness ==
    /\ ePc = "done"
    /\ eResult.status = "returned"
    /\ eLog = <<"ok">>
    /\ Len(ePages) = 2
    /\ \E p \in PageNumbers : eUpd[p].status = "error"
    /\ eResult.processed = 1
    /\ eResult.failed = 1

AllEmbedded == \A p \in PageNumbers : documentation_pages[p].embedding # Null

\* C9: under repeated invocations in which provider calls and store writes
\* eventually succeed, every page eventually has an embedding and keeps it;
\* from then on an invocation selects no page and returns processed = 0 and
\* failed = 0.
C9_EmbeddingGenerationResumes ==
    /\ <>[]AllEmbedded
    /\ [][(AllEmbedded /\ ePc \in {"idle", "done"}) =>
            /\ ePc' # "embed"
            /\ eResult' # eResult =>
                  \/ eResult'.status = "raised"
                  \/ eResult' = [ status |-> "returned", processed |-> 0,
                                  failed |-> 0, totalCost |-> 0 ]]_vars

C9_Witness ==
    /\ AllEmbedded
    /\ ePc = "done"
    /\ ePages = <<>>
    /\ eResult = [ status |-> "returned", processed |-> 0, failed |-> 0, totalCost |-> 0 ]
    /\ documentation_pages[3].embedding_token_count > 0

(***************************************************************************)
(* C25                                                                     *)
(***************************************************************************)
\* the score field of the first result: similarity of a semantic result,
\* combined_score of a hybrid one, none for a fulltext result or an empty list
firstScore(results, method) ==
    IF results = <<>> THEN NullScore
    ELSE IF method = "semantic" THEN results[1].similarity
    ELSE IF method = "hybrid" THEN results[1].combined_score
    ELSE NullScore

\* C25: the top score tracked with a query is the score field of the first
\* result whenever it is present, the value 0 included, and null exactly when
\* the list is empty or the first result has no score.
C25_TopScoreIsFirstResultScore ==
    [][Len(user_queries') > Len(user_queries) =>
          user_queries'[Len(user_queries')].top_similarity_score
             = firstScore(sResults, sMethod)]_vars

(***************************************************************************)
(* C22                                                                     *)
(***************************************************************************)
\* C22: once the search step of a request with tracking requested has
\* succeeded, the success response is eventually returned, whether or not the
\* tracking insert ever completes.
C22_ResponseNeverWaitsOnTracking ==
    (sPc = "track") ~> (sPc = "done" /\ sResponse.success)

(***************************************************************************)
(* C27                                                                     *)
(***************************************************************************)
\* a step of the run that is not the cut-off of the invocation
runStep == ePc \in {"embed", "updates"} /\ ePc' # "idle"

\* C27: on every return of generateMissingEmbeddings processed + failed is
\* the number of pages selected, whatever fails; a step of the run adds to
\* processed only pages of the batch whose update was applied without error,
\* and to the token total the token counts of just those pages; the result
\* carries these counters and the cost of that token total.
C27_EverySelectedPageCountedOnce ==
    [][/\ eResult'.status = "returned" =>
             /\ eResult'.processed + eResult'.failed = Len(ePages')
             /\ eResult'.processed = eProcessed'
             /\ eResult'.totalCost = totalCostOf(eTotalTokens')
       /\ runStep =>
             \E S \in SUBSET { p \in inBatch(ePages, eI) : eUpd[p].status = "ok" } :
                 /\ eProcessed' = eProcessed + Cardinality(S)
                 /\ eTotalTokens' = eTotalTokens + sumTokens(S)]_vars

\* a run over more than one batch returned after a provider call that threw,
\* an update answered with an error and an update applied
C27_Witness ==
    /\ eResult.status = "returned"
    /\ eResult.processed >= 1
    /\ eResult.failed >= 2
    /\ Len(ePages) > BATCH_SIZE
    /\ \E k \in 1..Len(eLog) : eLog[k] = "throws"
    /\ \E p \in PageNumbers : eUpd[p].status = "error"

(***************************************************************************)
(* C21                                                                     *)
(***************************************************************************)
\* the step taken issues the provider call of the current batch
providerCallStep ==
    /\ ePc = "embed"
    /\ Len(eLog') = Len(eLog) + 1

\* the step taken ends the current batch after its updates were issued
batchEndStep ==
    /\ ePc = "updates"
    /\ ePc' \in {"embed", "done"}

\* C21: no update of an earlier batch is still pending when the provider call
\* of a batch is issued, also when an update was rejected instead of
\* answering with an error value; and a batch adds to failed at most the
\* number of its updates that did not reach the store.
C21_UpdatesSettleBeforeNextBatch ==
    [][/\ providerCallStep => \A p \in PageNumbers : eUpd[p].status # "pending"
       /\ batchEndStep =>
             eFailed' - eFailed <=
                Cardinality({ p \in inBatch(ePages, eI) : eUpd[p].status # "ok" })]_vars

(***************************************************************************)
(* chunkText applied to drawn texts and chunk sizes                        *)
(***************************************************************************)
MaxSentences == 3

SentenceFragments == {
    <<"R","e","s","e","t"," ","t","h","e"," ","r","o","u","t","e","r"," ","n","o","w",".">>,
    <<"W","a","i","t","!">>,
    <<"I","s"," ","t","h","e"," ","l","i","g","h","t"," ","g","r","e","e","n","?","!">>,
    <<"t","h","e","n"," ","c","h","e","c","k"," ","a","l","l"," ","t","h","e"," ",
      "l","o","g","s">> }

\* the fragments of `fs` with one space between them
RECURSIVE joinSpace(_)
joinSpace(fs) ==
    IF Len(fs) = 0 THEN <<>>
    ELSE IF Len(fs) = 1 THEN fs[1]
    ELSE fs[1] \o <<" ">> \o joinSpace(Tail(fs))

RECURSIVE SentenceSeqs(_)
SentenceSeqs(n) ==
    IF n = 0 THEN { <<>> }
    ELSE SentenceSeqs(n - 1) \cup
         { Append(fs, f) : fs \in { g \in SentenceSeqs(n - 1) : Len(g) = n - 1 },
                           f \in SentenceFragments }

\* the fragments of `fs` with nothing between them
RECURSIVE joinPlain(_)
joinPlain(fs) ==
    IF Len(fs) = 0 THEN <<>> ELSE fs[1] \o joinPlain(Tail(fs))

\* the empty text, and sentences separated by one space or by nothing
ChunkTexts ==
    { joinSpace(fs) : fs \in SentenceSeqs(MaxSentences) } \cup
    { joinPlain(fs) : fs \in SentenceSeqs(MaxSentences) }

ChunkSizes == {10, 30, 40, DefaultChunkSize}

ChunkIdle ==
    /\ ckText = <<>>
    /\ ckSize = 0
    /\ ckChunks = <<>>
    /\ ckPc = "off"

ChunkStart ==
    /\ ckText \in ChunkTexts
    /\ ckSize \in ChunkSizes
    /\ ckChunks = <<>>
    /\ ckPc = "ready"

\* one call of chunkText on the drawn text and chunk size
Chunk ==
    /\ ckPc = "ready"
    /\ ckChunks' = chunkText(ckText, ckSize)
    /\ ckPc' = "done"
    /\ UNCHANGED <<ckText, ckSize>>
    /\ UNCHANGED exceptChunk

ChunkNext == Chunk

(***************************************************************************)
(* C23, C26                                                                *)
(***************************************************************************)
\* C23: chunkText returns exactly the candidate chunks of 20 or more
\* characters: every returned chunk has at least 20 characters, every
\* candidate chunk of at least 20 characters is returned, and the empty text
\* yields the empty sequence.
C23_DiscardsExactlyChunksBelowTwenty ==
    ckPc = "done" =>
        /\ \A i \in 1..Len(ckChunks) : Len(ckChunks[i]) >= 20
        /\ \A j \in 1..Len(candidateChunks(ckText, ckSize)) :
              Len(candidateChunks(ckText, ckSize)[j]) >= 20 =>
                 \E i \in 1..Len(ckChunks) :
                    ckChunks[i] = candidateChunks(ckText, ckSize)[j]
        /\ (ckText = <<>> => ckChunks = <<>>)

\* the chunk is one sentence of the text
singleSentence(text, chunk) ==
    \E k \in 1..Len(sentencesOf(text)) : trim(sentencesOf(text)[k]) = chunk

\* C26: every chunk returned by chunkText(T, S) has at most S characters
\* unless it is a single sentence that is itself longer than S.
C26_ChunksStayWithinChunkSize ==
    ckPc = "done" =>
        \A i \in 1..Len(ckChunks) :
            \/ Len(ckChunks[i]) <= ckSize
            \/ singleSentence(ckText, ckChunks[i])

(***************************************************************************)
(* C14                                                                     *)
(***************************************************************************)
\* the positions at which a sentence of the text ends: the last terminator of
\* a run of terminators, and the end of the text
sentenceEnds(text) ==
    { k \in 1..Len(text) :
        k = Len(text) \/ (isTerminator(text[k]) /\ ~isTerminator(text[k + 1])) }

\* the sentence of the text that ends at position k, without the spaces
\* around it
sentenceAt(text, k) ==
    LET before == { e \in sentenceEnds(text) : e < k }
        start == IF before = {} THEN 1
                 ELSE (CHOOSE e \in before : \A d \in before : d <= e) + 1
    IN trim(SubSeq(text, start, k))

inChunk(chunks, sentence) ==
    { j \in 1..Len(chunks) : includes(chunks[j], sentence) }

\* the sentence lies in a chunk that the final filter dropped
inDroppedChunk(text, chunkSize, sentence) ==
    \E j \in 1..Len(candidateChunks(text, chunkSize)) :
        /\ Len(candidateChunks(text, chunkSize)[j]) <= 20
        /\ includes(candidateChunks(text, chunkSize)[j], sentence)

\* C14: for a non-empty text, which may end without a sentence terminator,
\* every sentence of the text lies whole in one returned chunk unless it lies
\* in a chunk dropped for being too short, and the returned chunks keep the
\* sentences in their original order.
C14_ChunksKeepEverySentenceInOrder ==
    ckPc = "done" =>
        /\ \A k \in sentenceEnds(ckText) :
              \/ sentenceAt(ckText, k) = <<>>
              \/ inChunk(ckChunks, sentenceAt(ckText, k)) # {}
              \/ inDroppedChunk(ckText, ckSize, sentenceAt(ckText, k))
        /\ \A k1, k2 \in sentenceEnds(ckText) :
              (/\ k1 < k2
               /\ inChunk(ckChunks, sentenceAt(ckText, k1)) # {}
               /\ inChunk(ckChunks, sentenceAt(ckText, k2)) # {}) =>
                  \E j1 \in inChunk(ckChunks, sentenceAt(ckText, k1)),
                     j2 \in inChunk(ckChunks, sentenceAt(ckText, k2)) : j1 <= j2

(***************************************************************************)
(* Feedback endpoint: POST /api/metrics                                    *)
(***************************************************************************)
MaxFeedback == 2

\* request bodies: queryId missing, empty, of a stored record, or unknown
FeedbackBodies ==
    [ queryId      : {Null, "", "q1", "q2", "q9"},
      satisfaction : {1, 5},
      feedback     : {"good"},
      wasHelpful   : {"true", "false"} ]

NoFeedbackBody ==
    [ queryId |-> Null, satisfaction |-> NullScore, feedback |-> Null, wasHelpful |-> Null ]

feedbackResponse(status, success, query, err) ==
    [ status |-> status, success |-> success, query |-> query, error |-> err ]

NoFeedbackResponse == feedbackResponse(0, FALSE, Null, Null)

\* the feedback columns of user_queries, which the tracking insert leaves null
noFeedbackColumns ==
    [ user_satisfaction |-> NullScore, user_feedback_text |-> Null, was_helpful |-> Null ]

\* a record as the search endpoint stored it
storedQuery(id) ==
    userQueryRow(id, [ query |-> <<"g","i","t">> ], analyzeQuery(<<"g","i","t">>),
                 Null, <<>>, "fulltext") @@ noFeedbackColumns

FeedbackIdle ==
    /\ fPc = "off"
    /\ fReq = NoFeedbackBody
    /\ fCalls = <<>>
    /\ fResponse = NoFeedbackResponse
    /\ fServed = 0

FeedbackStart ==
    /\ fPc = "idle"
    /\ fReq = NoFeedbackBody
    /\ fCalls = <<>>
    /\ fResponse = NoFeedbackResponse
    /\ fServed = 0
    /\ user_queries = << storedQuery("q1"), storedQuery("q2") >>

\* .eq('id', queryId)
rowsWithId(rows, queryId) == { i \in 1..Len(rows) : rows[i].id = queryId }

\* lines 176-180: the columns the update writes
updatedRow(row, body) ==
    [row EXCEPT !.user_satisfaction = body.satisfaction,
                !.user_feedback_text = body.feedback,
                !.was_helpful = body.wasHelpful]

\* .select().single() over the number of rows the update returned: the one
\* row, or an error when there is none or more than one
single_NullWhenNone(matched) ==
    IF matched = 1 THEN "row" ELSE IF matched = 0 THEN "null" ELSE "error"

single(matched) == IF matched = 1 THEN "row" ELSE "error"

\* lines 161-171: the request arrives; without a queryId it is answered 400
FeedbackReceive(body) ==
    /\ fPc \in {"idle", "done"}
    /\ fServed < MaxFeedback
    /\ fServed' = fServed + 1
    /\ fReq' = body
    /\ fCalls' = <<>>
    /\ IF body.queryId \in {Null, ""}
       THEN /\ fResponse' = feedbackResponse(400, FALSE, Null, "Query ID is required")
            /\ fPc' = "done"
       ELSE /\ fResponse' = NoFeedbackResponse
            /\ fPc' = "update"
    /\ UNCHANGED user_queries
    /\ UNCHANGED exceptFeedback

\* lines 174-192: the store carries out the update and answers
FeedbackUpdate ==
    /\ fPc = "update"
    /\ fCalls' = Append(fCalls, "update user_queries")
    /\ LET hit == rowsWithId(user_queries, fReq.queryId)
           answer == single(Cardinality(hit))
       IN /\ user_queries' =
               [i \in 1..Len(user_queries) |->
                   IF i \in hit THEN updatedRow(user_queries[i], fReq)
                   ELSE user_queries[i]]
          /\ fResponse' =
               IF answer = "row"
               THEN feedbackResponse(200, TRUE, fReq.queryId, Null)
               ELSE IF answer = "null"
               THEN feedbackResponse(200, TRUE, Null, Null)
               ELSE feedbackResponse(500, FALSE, Null, "no rows returned")
    /\ fPc' = "done"
    /\ UNCHANGED <<fReq, fServed>>
    /\ UNCHANGED exceptFeedback

\* lines 185, 194-203: the store answers with an error or the call throws;
\* nothing is written and the catch answers 500
FeedbackStoreFails(how) ==
    /\ fPc = "update"
    /\ how \in {"error", "thrown"}
    /\ fCalls' = Append(fCalls, "update user_queries")
    /\ fResponse' = feedbackResponse(500, FALSE, Null, how)
    /\ fPc' = "done"
    /\ UNCHANGED <<fReq, fServed, user_queries>>
    /\ UNCHANGED exceptFeedback

FeedbackNext ==
    \/ \E body \in FeedbackBodies : FeedbackReceive(body)
    \/ FeedbackUpdate
    \/ \E how \in {"error", "thrown"} : FeedbackStoreFails(how)

(***************************************************************************)
(* C15 - C16                                                               *)
(***************************************************************************)
\* C15: a feedback request whose queryId matches no stored record gets an
\* explicit error and leaves the store as it was (no record created, none
\* modified); a request without queryId is answered with a 4xx error before
\* any store call.
C15_UnknownQueryIdIsAnErrorAndWritesNothing ==
    /\ [][(fPc = "update" /\ rowsWithId(user_queries, fReq.queryId) = {}) =>
            /\ user_queries' = user_queries
            /\ fPc' = "done" =>
                  /\ fResponse'.success = FALSE
                  /\ fResponse'.status >= 400
                  /\ fResponse'.error # Null]_vars
    /\ []((fPc = "done" /\ fReq.queryId \in {Null, ""}) =>
            /\ fResponse.status \in 400..499
            /\ fResponse.success = FALSE
            /\ fCalls = <<>>)

C15_Witness ==
    /\ fPc = "done"
    /\ fReq.queryId = "q9"
    /\ fCalls = <<"update user_queries">>
    /\ fResponse = feedbackResponse(500, FALSE, Null, "no rows returned")
    /\ user_queries = << storedQuery("q1"), storedQuery("q2") >>

\* C16: once feedback has been attached to a record, no later feedback call
\* changes its satisfaction, feedback text or helpfulness flag, and no
\* operation changes any other field of a stored record.
C16_RecordMutatedAtMostOnce ==
    [][\A i \in 1..Len(user_queries) :
          /\ i <= Len(user_queries')
          /\ user_queries[i].user_satisfaction # NullScore =>
                user_queries'[i] = user_queries[i]
          /\ updatedRow(user_queries'[i], NoFeedbackBody)
                = updatedRow(user_queries[i], NoFeedbackBody)]_vars

(***************************************************************************)
(* groupQueryVolume applied to drawn lists of tracked queries              *)
(***************************************************************************)
MaxVolumeQueries == 3

DigitChars == <<"0","1","2","3","4","5","6","7","8","9">>

\* String(n) of a natural number
RECURSIVE digits(_)
digits(n) ==
    IF n < 10 THEN <<DigitChars[n + 1]>>
    ELSE digits(n \div 10) \o <<DigitChars[(n % 10) + 1]>>

padStart2_None(s) == s

\* .padStart(2, '0')
padStart2(s) == IF Len(s) < 2 THEN <<"0">> \o s ELSE s

\* lines 134-138: the key of a date
keyOf(date, groupBy) ==
    LET day == digits(date.year) \o <<"-">> \o padStart2(digits(date.month))
                   \o <<"-">> \o padStart2(digits(date.day))
    IN IF groupBy = "hour"
       THEN day \o <<" ">> \o padStart2(digits(date.hour)) \o <<":","0","0">>
       ELSE day

\* the collation order of the characters of a key
CharOrder == <<" ", "-", ":">> \o DigitChars

charRank(c) == CHOOSE k \in 1..Len(CharOrder) : CharOrder[k] = c

\* a.localeCompare(b) on keys: negative, zero or positive
RECURSIVE localeCompare(_, _)
localeCompare(a, b) ==
    IF a = <<>> /\ b = <<>> THEN 0
    ELSE IF a = <<>> THEN -1
    ELSE IF b = <<>> THEN 1
    ELSE IF charRank(Head(a)) < charRank(Head(b)) THEN -1
    ELSE IF charRank(Head(a)) > charRank(Head(b)) THEN 1
    ELSE localeCompare(Tail(a), Tail(b))

resolvedAfter_Always(resolved, query) == resolved + 1

\* lines 145-147
resolvedAfter(resolved, query) ==
    IF query.found_in_docs THEN resolved + 1 ELSE resolved

\* lines 130-148: the groups after the loop, in the order their keys were
\* first seen
RECURSIVE groupLoop(_, _, _)
groupLoop(queries, groupBy, groups) ==
    IF queries = <<>> THEN groups
    ELSE LET query == Head(queries)
             key == keyOf(query.created_at, groupBy)
             at == { k \in 1..Len(groups) : groups[k].time = key }
             opened == IF at = {}
                       THEN Append(groups, [ time |-> key, total |-> 0, resolved |-> 0 ])
                       ELSE groups
             k == CHOOSE j \in 1..Len(opened) : opened[j].time = key
         IN groupLoop(Tail(queries), groupBy,
                      [opened EXCEPT ![k].total = @ + 1,
                                     ![k].resolved = resolvedAfter(@, query)])

\* line 155: a percentage, held as the fraction num / den
resolutionRate(data) ==
    IF data.total > 0 THEN [ num |-> data.resolved * 100, den |-> data.total ]
    ELSE [ num |-> 0, den |-> 1 ]

\* .sort((a, b) => a.time.localeCompare(b.time)): a stable sort
RECURSIVE insertByTime(_, _)
insertByTime(sorted, e) ==
    IF sorted = <<>> THEN <<e>>
    ELSE IF localeCompare(e.time, Head(sorted).time) < 0 THEN <<e>> \o sorted
    ELSE <<Head(sorted)>> \o insertByTime(Tail(sorted), e)

RECURSIVE sortByTime(_, _)
sortByTime(entries, sorted) ==
    IF entries = <<>> THEN sorted
    ELSE sortByTime(Tail(entries), insertByTime(sorted, Head(entries)))

groupQueryVolume(queries, groupBy) ==
    LET groups == groupLoop(queries, groupBy, <<>>)
        mapped == [k \in 1..Len(groups) |->
                     [ time |-> groups[k].time, total |-> groups[k].total,
                       resolved |-> groups[k].resolved,
                       resolutionRate |-> resolutionRate(groups[k]) ]]
    IN sortByTime(mapped, <<>>)

\* lines 20-27 of GET: the interval of a range
intervalMap(range) ==
    CASE range = "1h"  -> <<"1"," ","h","o","u","r">>
      [] range = "24h" -> <<"2","4"," ","h","o","u","r","s">>
      [] range = "7d"  -> <<"7"," ","d","a","y","s">>
      [] range = "30d" -> <<"3","0"," ","d","a","y","s">>
      [] range = "90d" -> <<"9","0"," ","d","a","y","s">>
      [] OTHER         -> <<"2","4"," ","h","o","u","r","s">>

\* line 105
groupByUnit(interval) ==
    IF includes(interval, <<"h","o","u","r">>) THEN "hour" ELSE "day"

Ranges == {"1h", "24h", "7d", "30d", "90d"}

date(month, day, hour) == [ year |-> 2024, month |-> month, day |-> day, hour |-> hour ]

\* created_at values: two hours of one day, and days either side of the
\* change from a one-digit month to a two-digit one
Dates == { date(9, 30, 23), date(10, 1, 9), date(10, 1, 10), date(10, 2, 9) }

TrackedQueries == [ created_at : Dates, found_in_docs : BOOLEAN ]

RECURSIVE QueryLists(_)
QueryLists(n) ==
    IF n = 0 THEN { <<>> }
    ELSE QueryLists(n - 1) \cup
         { Append(qs, q) : qs \in { l \in QueryLists(n - 1) : Len(l) = n - 1 },
                           q \in TrackedQueries }

VolumeIdle ==
    /\ gvQueries = <<>>
    /\ gvRange = "24h"
    /\ gvResult = <<>>
    /\ gvPc = "off"

VolumeStart ==
    /\ gvQueries \in QueryLists(MaxVolumeQueries)
    /\ gvRange \in Ranges
    /\ gvResult = <<>>
    /\ gvPc = "ready"

\* lines 104-113 of getMetricsOverTime: the selected rows are grouped by the
\* unit of the interval
Volume ==
    /\ gvPc = "ready"
    /\ gvResult' = groupQueryVolume(gvQueries, groupByUnit(intervalMap(gvRange)))
    /\ gvPc' = "done"
    /\ UNCHANGED <<gvQueries, gvRange>>
    /\ UNCHANGED exceptVolume

VolumeNext == Volume

(***************************************************************************)
(* C19                                                                     *)
(***************************************************************************)
\* the bucket of a date as numbers: its hour, or its day
bucketOf(d, unit) ==
    IF unit = "hour" THEN <<d.year, d.month, d.day, d.hour>>
    ELSE <<d.year, d.month, d.day, 0>>

earlier(a, b) ==
    \E k \in 1..4 : a[k] < b[k] /\ \A j \in 1..(k - 1) : a[j] = b[j]

unitOfRange(range) == IF range \in {"1h", "24h"} THEN "hour" ELSE "day"

bucketsOf(queries, unit) ==
    { bucketOf(queries[k].created_at, unit) : k \in 1..Len(queries) }

\* the queries of a bucket, by position
queriesIn(queries, unit, bucket) ==
    { k \in 1..Len(queries) : bucketOf(queries[k].created_at, unit) = bucket }

\* the bucket that has n - 1 buckets before it
nthBucket(buckets, n) ==
    CHOOSE b \in buckets : Cardinality({ a \in buckets : earlier(a, b) }) = n - 1

bucketTime(b, unit) ==
    keyOf([ year |-> b[1], month |-> b[2], day |-> b[3], hour |-> b[4] ], unit)

RECURSIVE sumTotals(_)
sumTotals(result) ==
    IF result = <<>> THEN 0 ELSE Head(result).total + sumTotals(Tail(result))

\* C19: groupQueryVolume returns one bucket per distinct hour (ranges 1h, 24h)
\* or day (7d, 30d, 90d) of the queries, in strictly ascending chronological
\* order; a bucket counts its queries and those found in the docs, resolved is
\* at most total, the rate is resolved / total x 100 within [0, 100], and the
\* totals add up to the number of queries.
C19_VolumeBucketsCountAndAscend ==
    gvPc = "done" =>
        LET unit == unitOfRange(gvRange)
            buckets == bucketsOf(gvQueries, unit)
        IN /\ Len(gvResult) = Cardinality(buckets)
           /\ sumTotals(gvResult) = Len(gvQueries)
           /\ \A n \in 1..Len(gvResult) :
                 LET b == nthBucket(buckets, n)
                     members == queriesIn(gvQueries, unit, b)
                 IN /\ gvResult[n].time = bucketTime(b, unit)
                    /\ gvResult[n].total = Cardinality(members)
                    /\ gvResult[n].resolved =
                          Cardinality({ k \in members : gvQueries[k].found_in_docs })
                    /\ gvResult[n].resolved <= gvResult[n].total
                    /\ gvResult[n].resolutionRate.den = gvResult[n].total
                    /\ gvResult[n].resolutionRate.num = gvResult[n].resolved * 100
                    /\ gvResult[n].resolutionRate.num >= 0
                    /\ gvResult[n].resolutionRate.num <= 100 * gvResult[n].resolutionRate.den

\* September 30 and October 1 asked by day: two buckets, September first
C19_Witness ==
    /\ gvPc = "done"
    /\ gvRange = "7d"
    /\ Len(gvQueries) = 3
    /\ gvQueries[1].created_at = date(10, 1, 10)
    /\ gvQueries[2].created_at = date(9, 30, 23)
    /\ gvQueries[3].created_at = date(10, 1, 9)
    /\ Len(gvResult) = 2
    /\ gvResult[1].total = 1
    /\ gvResult[2].total = 2
    /\ gvResult[2].resolved = 1

(***************************************************************************)
(* truncateText behind generateEmbedding and generateEmbeddingsBatch       *)
(***************************************************************************)
\* token budget of one text (8000 in the source), 4 characters per token
MAX_TOKENS == 1
\* how far a drawn text may exceed the budget
MaxExcess == 3

Marker == <<".", ".", ".">>

truncateText(text, maxTokens) ==
    LET maxChars == maxTokens * 4 IN
    IF Len(text) <= maxChars THEN text
    ELSE SubSeq(text, 1, maxChars) \o Marker

RECURSIVE TextsOfLen(_)
TextsOfLen(n) ==
    IF n = 0 THEN { <<>> }
    ELSE { Append(t, c) : t \in TextsOfLen(n - 1), c \in {"a", "."} }

Texts == UNION { TextsOfLen(n) : n \in 0..(MAX_TOKENS * 4 + MaxExcess) }

\* second texts of a batch: within the budget, and beyond it
SecondTexts == { <<"a", ".">>, [i \in 1..(MAX_TOKENS * 4 + 1) |-> "a"] }

TruncIdle ==
    /\ tcTexts = <<>>
    /\ tcInput = <<>>
    /\ tcPc = "off"


TruncStart ==
    /\ tcTexts \in { <<t>> : t \in Texts } \cup { <<t, u>> : t \in Texts, u \in SecondTexts }
    /\ tcInput = <<>>
    /\ tcPc = "ready"

\* generateEmbedding, lines 223-231: the request carries the truncated text
GenerateEmbedding ==
    /\ tcPc = "ready"
    /\ Len(tcTexts) = 1
    /\ tcInput' = <<truncateText(tcTexts[1], MAX_TOKENS)>>
    /\ tcPc' = "submitted"
    /\ UNCHANGED tcTexts
    /\ UNCHANGED exceptTrunc

\* generateEmbeddingsBatch, lines 250-257: the texts, one provider batch at
\* most, are truncated one by one and submitted together
GenerateEmbeddingsBatch ==
    /\ tcPc = "ready"
    /\ Len(tcTexts) <= BATCH_SIZE
    /\ tcInput' = [i \in 1..Len(tcTexts) |-> truncateText(tcTexts[i], MAX_TOKENS)]
    /\ tcPc' = "submitted"
    /\ UNCHANGED tcTexts
    /\ UNCHANGED exceptTrunc

TruncNext == GenerateEmbedding \/ GenerateEmbeddingsBatch

(***************************************************************************)
(* C24                                                                     *)
(***************************************************************************)
startsWith(s, prefix) == Len(s) >= Len(prefix) /\ SubSeq(s, 1, Len(prefix)) = prefix
endsWith(s, suffix) ==
    Len(s) >= Len(suffix) /\ SubSeq(s, Len(s) - Len(suffix) + 1, Len(s)) = suffix

\* C24: every text submitted to the provider has at most MAX_TOKENS x 4
\* characters: a text within the budget is submitted unchanged, a longer one
\* is cut to a prefix followed by the marker that together stay within the
\* budget, and truncating a submitted text again returns it unchanged.
C24_SubmittedTextsStayWithinBudget ==
    tcPc = "submitted" =>
        /\ Len(tcInput) = Len(tcTexts)
        /\ \A i \in 1..Len(tcInput) :
              /\ Len(tcInput[i]) <= MAX_TOKENS * 4
              /\ Len(tcTexts[i]) <= MAX_TOKENS * 4 => tcInput[i] = tcTexts[i]
              /\ Len(tcTexts[i]) > MAX_TOKENS * 4 =>
                    /\ endsWith(tcInput[i], Marker)
                    /\ startsWith(tcTexts[i], SubSeq(tcInput[i], 1, Len(tcInput[i]) - 3))
              /\ truncateText(tcInput[i], MAX_TOKENS) = tcInput[i]

(***************************************************************************)
(* document sync queue processor                                           *)
(***************************************************************************)
NumItems == 2
Items == 1..NumItems
\* .limit(20)
QueueLimit == 20
\* .lt('retry_count', 3)
MaxRetries == 3

NoTotals == [ processed |-> 0, succeeded |-> 0, failed |-> 0 ]
NoSyncResponse == [ status |-> 0, success |-> "null", totals |-> NoTotals ]

SyncIdle ==
    /\ qPc = "off"
    /\ qItems = <<>>
    /\ qIdx = 0
    /\ qTotals = NoTotals
    /\ qResponse = NoSyncResponse
    /\ qAttempts = [id \in Items |-> 0]
    /\ qDocs = {}
    /\ qSynced = {}
    /\ document_sync_queue = <<>>


\* each item waits for its first attempt or was completed by an earlier run;
\* the document of an item (document_id = id) may be missing
SyncStart ==
    /\ qPc = "idle"
    /\ qItems = <<>>
    /\ qIdx = 0
    /\ qTotals = NoTotals
    /\ qResponse = NoSyncResponse
    /\ qAttempts = [id \in Items |-> 0]
    /\ qDocs \in SUBSET Items
    /\ qSynced = {}
    /\ document_sync_queue \in
          [Items -> { [status |-> "pending", retry_count |-> 0],
                      [status |-> "completed", retry_count |-> 0] }]

\* lines 272-278: the pending items below the retry limit, oldest first (ids
\* follow created_at), 20 at most, each as read
selectable(queue) ==
    { id \in Items : queue[id].status = "pending" /\ queue[id].retry_count < MaxRetries }

queueItems(queue) ==
    LET ids == slice(ascending(selectable(queue)), QueueLimit) IN
    [k \in 1..Len(ids) |-> [ id |-> ids[k], retry_count |-> queue[ids[k]].retry_count ]]

queueItem == qItems[qIdx]

\* lines 397-409: the loop moves on to the next item or the run answers
SyncAdvance(totals) ==
    /\ qTotals' = totals
    /\ IF qIdx < Len(qItems)
       THEN /\ qIdx' = qIdx + 1
            /\ qPc' = "mark"
            /\ qResponse' = qResponse
       ELSE /\ qIdx' = qIdx
            /\ qPc' = "done"
            /\ qResponse' = [ status |-> 200, success |-> "true", totals |-> totals ]

\* lines 254-296: method and authorization checks, then the select of the
\* queue
SyncBegin(how) ==
    /\ qPc \in {"idle", "done"}
    /\ how \in {"method", "unauthorized", "queueError", "ok"}
    /\ qTotals' = NoTotals
    /\ IF how = "method"
       THEN /\ qResponse' = [ status |-> 405, success |-> "null", totals |-> NoTotals ]
            /\ qItems' = <<>> /\ qIdx' = 0 /\ qPc' = "done"
       ELSE IF how = "unauthorized"
       THEN /\ qResponse' = [ status |-> 401, success |-> "null", totals |-> NoTotals ]
            /\ qItems' = <<>> /\ qIdx' = 0 /\ qPc' = "done"
       ELSE IF how = "queueError"
       THEN /\ qResponse' = [ status |-> 500, success |-> "null", totals |-> NoTotals ]
            /\ qItems' = <<>> /\ qIdx' = 0 /\ qPc' = "done"
       ELSE IF queueItems(document_sync_queue) = <<>>
       THEN /\ qResponse' = [ status |-> 200, success |-> "true", totals |-> NoTotals ]
            /\ qItems' = <<>> /\ qIdx' = 0 /\ qPc' = "done"
       ELSE /\ qResponse' = NoSyncResponse
            /\ qItems' = queueItems(document_sync_queue)
            /\ qIdx' = 1
            /\ qPc' = "mark"
    /\ UNCHANGED <<qAttempts, qDocs, qSynced, document_sync_queue>>
    /\ UNCHANGED exceptSync

SyncBeginOk == SyncBegin("ok")

\* lines 298-306: the attempt on the item begins
SyncMarkProcessing ==
    /\ qPc = "mark"
    /\ document_sync_queue' = [document_sync_queue EXCEPT ![queueItem.id].status = "processing"]
    /\ qAttempts' = [qAttempts EXCEPT ![queueItem.id] = @ + 1]
    /\ qTotals' = [qTotals EXCEPT !.processed = @ + 1]
    /\ qPc' = "doc"
    /\ UNCHANGED <<qItems, qIdx, qResponse, qDocs, qSynced>>
    /\ UNCHANGED exceptSync

\* lines 309-323: the document is read; a missing one throws
SyncSelectDoc ==
    /\ qPc = "doc"
    /\ qPc' = IF queueItem.id \in qDocs THEN "commit" ELSE "fail"
    /\ UNCHANGED <<qItems, qIdx, qTotals, qResponse, qAttempts, qDocs, qSynced,
                   document_sync_queue>>
    /\ UNCHANGED exceptSync

\* lines 345-347, 374-376: commitToGitHub answers with success or not
SyncCommit(success) ==
    /\ qPc = "commit"
    /\ qPc' = IF success THEN "meta" ELSE "fail"
    /\ UNCHANGED <<qItems, qIdx, qTotals, qResponse, qAttempts, qDocs, qSynced,
                   document_sync_queue>>
    /\ UNCHANGED exceptSync

\* lines 349-359: the metadata of the document
SyncUpdateMetadata ==
    /\ qPc = "meta"
    /\ qSynced' = qSynced \cup {queueItem.id}
    /\ qPc' = "complete"
    /\ UNCHANGED <<qItems, qIdx, qTotals, qResponse, qAttempts, qDocs, document_sync_queue>>
    /\ UNCHANGED exceptSync

\* lines 362-371
SyncMarkCompleted ==
    /\ qPc = "complete"
    /\ document_sync_queue' = [document_sync_queue EXCEPT ![queueItem.id].status = "completed"]
    /\ SyncAdvance([qTotals EXCEPT !.succeeded = @ + 1])
    /\ UNCHANGED <<qItems, qAttempts, qDocs, qSynced>>
    /\ UNCHANGED exceptSync

\* the catch of lines 379-394
SyncMarkFailed ==
    /\ qPc = "fail"
    /\ document_sync_queue' =
          [document_sync_queue EXCEPT ![queueItem.id] =
              [ status |-> "failed", retry_count |-> queueItem.retry_count + 1 ]]
    /\ SyncAdvance([qTotals EXCEPT !.failed = @ + 1])
    /\ UNCHANGED <<qItems, qAttempts, qDocs, qSynced>>
    /\ UNCHANGED exceptSync

SyncNext ==
    \/ \E how \in {"method", "unauthorized", "queueError", "ok"} : SyncBegin(how)
    \/ SyncMarkProcessing
    \/ SyncSelectDoc
    \/ \E success \in BOOLEAN : SyncCommit(success)
    \/ SyncUpdateMetadata
    \/ SyncMarkCompleted
    \/ SyncMarkFailed

(***************************************************************************)
(* C29                                                                     *)
(***************************************************************************)
attempted(id) == qPc \notin {"idle", "done"} /\ queueItem.id = id

\* C29: an item whose attempt failed is attempted again by a later run until
\* it is completed or its retry_count has reached 3; no item is attempted
\* more than 3 times, and no run selects a completed queueItem.
C29_FailedItemsAreRetriedUpToThreeTimes ==
    /\ \A id \in Items :
          (document_sync_queue[id].status = "failed"
              /\ document_sync_queue[id].retry_count < MaxRetries)
          ~> (\/ attempted(id)
              \/ document_sync_queue[id].status = "completed"
              \/ document_sync_queue[id].retry_count >= MaxRetries)
    /\ [][\A id \in Items :
             /\ qAttempts'[id] <= MaxRetries
             /\ (qPc \in {"idle", "done"}
                   /\ document_sync_queue[id].status = "completed") =>
                   \A k \in 1..Len(qItems') : qItems'[k].id # id]_vars

(***************************************************************************)
(* Legal compliance endpoint: POST /api/legal-compliance                   *)
(***************************************************************************)
MaxLegalRequests == 1

suspiciousKeywords ==
    << <<"n","i","k","e">>, <<"a","d","i","d","a","s">>, <<"a","p","p","l","e">>,
       <<"m","i","c","r","o","s","o","f","t">>, <<"g","o","o","g","l","e">>, <<"a","m","a","z","o","n">>,
       <<"d","i","s","n","e","y">>, <<"c","o","c","a","-","c","o","l","a">>, <<"p","e","p","s","i">>,
       <<"m","c","d","o","n","a","l","d","s">>, <<"s","t","a","r","b","u","c","k","s">>, <<"w","a","l","m","a","r","t">>,
       <<"t","a","r","g","e","t">>, <<"n","f","l">>, <<"n","b","a">>,
       <<"m","l","b">>, <<"n","h","l">>, <<"e","s","p","n">>,
       <<"o","l","y","m","p","i","c","s">> >>

\* the patterns are matched without regard to case: they are kept in lower
\* case and looked for in the lower-cased text
riskyPatterns ==
    << <<"j","u","s","t"," ","d","o"," ","i","t">>,
       <<"t","h","i","n","k"," ","d","i","f","f","e","r","e","n","t">>,
       <<"h","a","v","e"," ","i","t"," ","y","o","u","r"," ","w","a","y">>,
       <<"i","'","m"," ","l","o","v","i","n","'"," ","i","t">>,
       <<"t","h","e"," ","r","e","a","l"," ","t","h","i","n","g">> >>

copyrightedPatterns ==
    << <<"s","o","m","e","b","o","d","y"," ","o","n","c","e"," ","t","o","l","d"," ","m","e">>,
       <<"n","e","v","e","r"," ","g","o","n","n","a"," ","g","i","v","e"," ","y","o","u"," ","u","p">>,
       <<"d","o","n","'","t"," ","s","t","o","p"," ","b","e","l","i","e","v","i","n","'">>,
       <<"m","a","y"," ","t","h","e"," ","f","o","r","c","e"," ","b","e"," ","w","i","t","h"," ","y","o","u">>,
       <<"i","'","l","l"," ","b","e"," ","b","a","c","k">>,
       <<"h","e","r","e","'","s"," ","l","o","o","k","i","n","g"," ","a","t"," ","y","o","u">>,
       <<"i","t"," ","w","a","s"," ","t","h","e"," ","b","e","s","t"," ","o","f"," ","t","i","m","e","s">>,
       <<"c","a","l","l"," ","m","e"," ","i","s","h","m","a","e","l">> >>

publicFigurePatterns ==
    << <<"b","i","d","e","n">>, <<"t","r","u","m","p">>, <<"o","b","a","m","a">>,
       <<"c","l","i","n","t","o","n">>, <<"m","u","s","k">>, <<"b","e","z","o","s">>,
       <<"z","u","c","k","e","r","b","e","r","g">>, <<"g","a","t","e","s">> >>

defamatoryTerms ==
    << <<"l","i","a","r">>, <<"t","h","i","e","f">>, <<"c","r","i","m","i","n","a","l">>,
       <<"f","r","a","u","d">>, <<"s","c","a","m">>, <<"c","o","r","r","u","p","t">>,
       <<"h","a","t","e","s">>, <<"r","a","c","i","s","t">>, <<"b","i","g","o","t">>,
       <<"n","a","z","i">>, <<"f","a","s","c","i","s","t">> >>

hateSpeechVerbs ==
    << <<"k","i","l","l">>, <<"m","u","r","d","e","r">>, <<"a","s","s","a","s","s","i","n","a","t","e">>,
       <<"a","t","t","a","c","k">> >>
hateSpeechTargets ==
    << <<"p","r","e","s","i","d","e","n","t">>, <<"s","e","n","a","t","o","r">>, <<"c","o","n","g","r","e","s","s","m","a","n">>,
       <<"p","o","l","i","t","i","c","i","a","n">> >>

\* \w
isWordChar(c) ==
    \/ \E k \in 1..Len(LowerChars) : LowerChars[k] = c
    \/ \E k \in 1..Len(UpperChars) : UpperChars[k] = c
    \/ \E k \in 1..Len(DigitChars) : DigitChars[k] = c
    \/ c = "_"

\* \bword\b matches at position i of s
wordAt(s, word, i) ==
    /\ i >= 1 /\ i + Len(word) - 1 <= Len(s)
    /\ s[i] = word[1]
    /\ SubSeq(s, i, i + Len(word) - 1) = word
    /\ (i = 1 \/ ~isWordChar(s[i - 1]))
    /\ (i + Len(word) - 1 = Len(s) \/ ~isWordChar(s[i + Len(word)]))

hasWord(s, words) ==
    \E k \in 1..Len(words), i \in 1..Len(s) : wordAt(s, words[k], i)

\* /\b(kill|...)\b.*\b(president|...)\b/i
hasHateSpeech(s) ==
    \E k \in 1..Len(hateSpeechVerbs), i \in 1..Len(s) :
        /\ wordAt(s, hateSpeechVerbs[k], i)
        /\ \E n \in 1..Len(hateSpeechTargets), j \in (i + Len(hateSpeechVerbs[k]))..Len(s) :
              /\ wordAt(s, hateSpeechTargets[n], j)
              /\ \A x \in i..j : s[x] # "\n"

\* replace(/[^\w\s]/g, ' ')
replaceNonWord(s) ==
    [i \in 1..Len(s) |-> IF isWordChar(s[i]) \/ isSpace(s[i]) THEN s[i] ELSE " "]

\* split(' ').length: one piece more than there are spaces
splitLength(s) == Cardinality({ i \in 1..Len(s) : s[i] = " " }) + 1

\* lines 56-141; the catch of lines 142-149 is not reached by a text
checkTrademark(text) ==
    LET searchText == trim(replaceNonWord(toLowerCase(text))) IN
    IF splitLength(searchText) <= 2 /\ Len(searchText) < 10
    THEN [ status |-> "clear", riskLevel |-> "low" ]
    ELSE IF includesAny(toLowerCase(text), suspiciousKeywords)
    THEN [ status |-> "conflict", riskLevel |-> "critical" ]
    ELSE IF includesAny(toLowerCase(text), riskyPatterns)
    THEN [ status |-> "potential_conflict", riskLevel |-> "high" ]
    ELSE [ status |-> "clear", riskLevel |-> "low" ]

\* text.length > 200
LongTextLength == 200

\* lines 131-176; the catch of lines 177-184 is not reached by a text
checkCopyright(text) ==
    IF includesAny(toLowerCase(text), copyrightedPatterns)
    THEN [ status |-> "match", riskLevel |-> "critical" ]
    ELSE IF Len(text) > LongTextLength
    THEN [ status |-> "potential_match", riskLevel |-> "medium" ]
    ELSE [ status |-> "clear", riskLevel |-> "low" ]

\* lines 191-238
checkDefamation(text) ==
    LET lower == toLowerCase(text)
        mentionsPublicFigure == includesAny(lower, publicFigurePatterns)
        hasDefamatoryTerms == hasWord(lower, defamatoryTerms)
        flags == (IF mentionsPublicFigure THEN <<"mentions_public_figure">> ELSE <<>>)
                 \o (IF hasDefamatoryTerms THEN <<"potentially_defamatory_language">> ELSE <<>>)
                 \o (IF hasHateSpeech(lower) THEN <<"hate_speech_detected">> ELSE <<>>)
        riskLevel == IF hasHateSpeech(lower) THEN "high"
                     ELSE IF hasDefamatoryTerms
                          THEN (IF mentionsPublicFigure THEN "high" ELSE "medium")
                     ELSE IF mentionsPublicFigure THEN "medium"
                     ELSE "low"
    IN [ status |-> IF Len(flags) > 0 THEN "flagged" ELSE "clear",
         flags |-> flags, riskLevel |-> riskLevel ]

\* lines 244-278
performLegalCheck(request) ==
    LET trademark == checkTrademark(request.text)
        copyright == checkCopyright(request.text)
        defamation == checkDefamation(request.text)
        riskLevels == {trademark.riskLevel, copyright.riskLevel, defamation.riskLevel}
        overallRisk == IF "critical" \in riskLevels THEN "critical"
                       ELSE IF "high" \in riskLevels THEN "high"
                       ELSE IF "medium" \in riskLevels THEN "medium" ELSE "low"
        requiresReview == \/ overallRisk = "critical"
                          \/ overallRisk = "high"
                          \/ trademark.status = "conflict"
                          \/ copyright.status = "match"
                          \/ Len(defamation.flags) > 0
    IN [ passed |-> overallRisk = "low" /\ ~requiresReview,
         riskLevel |-> overallRisk,
         requiresReview |-> requiresReview,
         checks |-> [ trademark |-> trademark, copyright |-> copyright,
                      defamation |-> defamation ] ]

NoLegalResult ==
    [ passed |-> FALSE, riskLevel |-> "null", requiresReview |-> FALSE,
      checks |-> [ trademark |-> [ status |-> "null", riskLevel |-> "null" ],
                   copyright |-> [ status |-> "null", riskLevel |-> "null" ],
                   defamation |-> [ status |-> "null", flags |-> <<>>,
                                    riskLevel |-> "null" ] ] ]

NoLegalBody == [ text |-> <<>>, checkType |-> "null", sourceId |-> Null ]
NoLegalResponse == [ status |-> 0, success |-> FALSE, result |-> NoLegalResult ]

\* a text of more than 200 characters with nothing else in it
LongText == [i \in 1..(LongTextLength + 1) |-> IF i % 2 = 1 THEN "o" ELSE " "]

LegalTexts == {
    <<>>,
    <<"V","o","t","e"," ","e","a","r","l","y">>,
    <<"N","i","k","e">>,
    <<"W","e"," ","b","e","a","t"," ","n","i","k","e"," ","e","v","e","r","y"," ","d","a","y">>,
    <<"J","u","s","t"," ","d","o"," ","i","t"," ","f","o","r"," ","t","h","e"," ","t","e","a","m">>,
    <<"I","'","l","l"," ","b","e"," ","b","a","c","k"," ","i","n"," ","t","o","w","n">>,
    <<"T","r","u","m","p"," ","w","i","n","s"," ","a","g","a","i","n">>,
    <<"A"," ","c","o","r","r","u","p","t"," ","s","y","s","t","e","m"," ","f","a","i","l","s"," ","u","s">>,
    <<"K","i","l","l"," ","t","h","e"," ","s","e","n","a","t","o","r"," ","b","i","l","l">>,
    <<"W","e"," ","s","k","i","l","l"," ","u","p"," ","s","c","a","m","p","i">>,
    <<"T","h","i","n","k"," ","d","i","f","f","e","r","e","n","t"," ","t","o","d","a","y">>,
    <<"A","p","p","l","e"," ","p","i","e"," ","f","o","r"," ","e","v","e","r","y","o","n","e">>,
    LongText }

LegalBodies ==
    { [ text |-> t, checkType |-> c, sourceId |-> s ] :
        t \in LegalTexts, c \in {"slogan", "product_name"}, s \in {"s1", Null} }

LegalIdle ==
    /\ lPc = "off"
    /\ lReq = NoLegalBody
    /\ lResult = NoLegalResult
    /\ lCalls = <<>>
    /\ lResponse = NoLegalResponse
    /\ lServed = 0
    /\ generated_slogans = <<>>
    /\ approval_queue = <<>>

\* the slogan s1 has been generated and not reviewed yet
LegalStart ==
    /\ lPc = "idle"
    /\ lReq = NoLegalBody
    /\ lResult = NoLegalResult
    /\ lCalls = <<>>
    /\ lResponse = NoLegalResponse
    /\ lServed = 0
    /\ generated_slogans = [ s1 |-> [ legal_status |-> "pending" ] ]
    /\ approval_queue = <<>>

\* lines 367-395: POST; a body without text is refused, the others are
\* checked, and saved when they name a source
LegalReceive(body) ==
    /\ lPc \in {"idle", "done"}
    /\ lServed < MaxLegalRequests
    /\ lServed' = lServed + 1
    /\ lReq' = body
    /\ lCalls' = <<>>
    /\ IF body.text = <<>>
       THEN /\ lResult' = NoLegalResult
            /\ lResponse' = [ status |-> 400, success |-> FALSE, result |-> NoLegalResult ]
            /\ lPc' = "done"
       ELSE /\ lResult' = performLegalCheck(body)
            /\ IF body.sourceId # Null
               THEN /\ lResponse' = NoLegalResponse
                    /\ lPc' = "save"
               ELSE /\ lResponse' = [ status |-> 200, success |-> TRUE,
                                      result |-> performLegalCheck(body) ]
                    /\ lPc' = "done"
    /\ UNCHANGED <<generated_slogans, approval_queue>>
    /\ UNCHANGED exceptLegal

\* saveCheckResults, lines 288-299: the row of trademark_checks of a slogan
LegalSaveTrademark ==
    /\ lPc = "save"
    /\ lCalls' = IF lReq.checkType = "slogan"
                 THEN Append(lCalls, "insert trademark_checks") ELSE lCalls
    /\ lPc' = IF lReq.checkType = "slogan" THEN "save copyright" ELSE "decide"
    /\ UNCHANGED <<lReq, lResult, lResponse, lServed, generated_slogans, approval_queue>>
    /\ UNCHANGED exceptLegal

\* saveCheckResults, lines 301-310: the row of copyright_checks
LegalSaveCopyright ==
    /\ lPc = "save copyright"
    /\ lCalls' = Append(lCalls, "insert copyright_checks")
    /\ lPc' = "decide"
    /\ UNCHANGED <<lReq, lResult, lResponse, lServed, generated_slogans, approval_queue>>
    /\ UNCHANGED exceptLegal

priorityOf(riskLevel) ==
    IF riskLevel = "critical" THEN 10
    ELSE IF riskLevel = "high" THEN 7
    ELSE IF riskLevel = "medium" THEN 4 ELSE 1

flagReasonsOf(checks) ==
    (IF checks.trademark.status # "clear" THEN <<"trademark_risk">> ELSE <<>>)
    \o (IF checks.copyright.status # "clear" THEN <<"copyright_risk">> ELSE <<>>)
    \o (IF checks.defamation.status = "flagged" THEN <<"defamation_risk">> ELSE <<>>)

\* the update of generated_slogans where id = sourceId
withLegalStatus(slogans, request, status) ==
    IF request.checkType = "slogan" /\ request.sourceId # Null
    THEN [slogans EXCEPT !.s1.legal_status = status]
    ELSE slogans

\* saveCheckResults, lines 314-348, and the response of lines 389-392
LegalQueueForReview ==
    /\ lPc = "decide"
    /\ lResult.requiresReview
    /\ approval_queue' = Append(approval_queue,
          [ item_type |-> lReq.checkType, item_id |-> lReq.sourceId,
            flag_reasons |-> flagReasonsOf(lResult.checks),
            risk_level |-> lResult.riskLevel, status |-> "pending",
            priority |-> priorityOf(lResult.riskLevel) ])
    /\ generated_slogans' = withLegalStatus(generated_slogans, lReq, "flagged")
    /\ lCalls' = lCalls \o <<"insert approval_queue">>
                 \o (IF lReq.checkType = "slogan" THEN <<"flag slogan">> ELSE <<>>)
    /\ lResponse' = [ status |-> 200, success |-> TRUE, result |-> lResult ]
    /\ lPc' = "done"
    /\ UNCHANGED <<lReq, lResult, lServed>>
    /\ UNCHANGED exceptLegal

\* saveCheckResults, lines 349-360, and the response of lines 389-392
LegalAutoApprove ==
    /\ lPc = "decide"
    /\ ~lResult.requiresReview
    /\ generated_slogans' = withLegalStatus(generated_slogans, lReq, "approved")
    /\ lCalls' = lCalls \o (IF lReq.checkType = "slogan" THEN <<"approve slogan">> ELSE <<>>)
    /\ lResponse' = [ status |-> 200, success |-> TRUE, result |-> lResult ]
    /\ lPc' = "done"
    /\ UNCHANGED <<lReq, lResult, lServed, approval_queue>>
    /\ UNCHANGED exceptLegal

LegalNext ==
    \/ \E body \in LegalBodies : LegalReceive(body)
    \/ LegalSaveTrademark
    \/ LegalSaveCopyright
    \/ LegalQueueForReview
    \/ LegalAutoApprove

(***************************************************************************)
(* C30                                                                     *)
(***************************************************************************)
approves ==
    /\ Len(lCalls') > Len(lCalls)
    /\ lCalls'[Len(lCalls')] = "approve slogan"

\* C30: a slogan is set to 'approved' only when the result of its check has
\* passed = true, that is overall risk low and no review required; passed and
\* requiresReview are never both true.
C30_OnlyPassedSlogansAreApproved ==
    [][/\ approves =>
             /\ lResult.passed
             /\ lResult.riskLevel = "low"
             /\ ~lResult.requiresReview
       /\ ~(lResult'.passed /\ lResult'.requiresReview)]_vars

(***************************************************************************)
(* Specifications                                                          *)
(***************************************************************************)
AnalyzeNext == Analyze

LateIdle == TruncIdle /\ SyncIdle /\ LegalIdle

EarlyIdle ==
    /\ AnalyzeIdle /\ SearchIdle /\ IngestIdle /\ PagesEmpty /\ DetectIdle /\ EmbedIdle
    /\ ChunkIdle /\ FeedbackIdle /\ VolumeIdle

AnalyzeInit ==
    /\ AnalyzeStart /\ SearchIdle /\ IngestIdle /\ PagesEmpty /\ DetectIdle /\ EmbedIdle
    /\ ChunkIdle /\ FeedbackIdle /\ VolumeIdle
    /\ LateIdle

SpecAnalyze == AnalyzeInit /\ [][AnalyzeNext]_vars

SearchInit ==
    /\ SearchStart /\ AnalyzeIdle /\ IngestIdle /\ PagesEmpty /\ DetectIdle /\ EmbedIdle
    /\ ChunkIdle /\ FeedbackIdle /\ VolumeIdle
    /\ LateIdle

SpecSearch == SearchInit /\ [][SearchNext]_vars

\* the provider and the search of the store answer in the end; the tracking
\* insert may never complete
SearchFairness ==
    /\ WF_vars(SearchEmbedOk \/ SearchEmbedThrows)
    /\ WF_vars(SearchStoreError \/ \E data \in StoreData(sReq.matchCount) : SearchStoreData(data))

SpecSearchFair == SearchInit /\ [][SearchNext]_vars /\ SearchFairness

FeedbackInit ==
    /\ FeedbackStart /\ AnalyzeIdle /\ SearchOwnIdle /\ IngestIdle /\ PagesEmpty
    /\ DetectIdle /\ EmbedIdle /\ ChunkIdle /\ VolumeIdle
    /\ LateIdle

SpecFeedback == FeedbackInit /\ [][FeedbackNext]_vars

VolumeInit ==
    /\ VolumeStart /\ AnalyzeIdle /\ SearchIdle /\ IngestIdle /\ PagesEmpty
    /\ DetectIdle /\ EmbedIdle /\ ChunkIdle /\ FeedbackIdle
    /\ LateIdle

SpecVolume == VolumeInit /\ [][VolumeNext]_vars

ChunkInit ==
    /\ ChunkStart /\ AnalyzeIdle /\ SearchIdle /\ IngestIdle /\ PagesEmpty
    /\ DetectIdle /\ EmbedIdle /\ FeedbackIdle /\ VolumeIdle
    /\ LateIdle

SpecChunk == ChunkInit /\ [][ChunkNext]_vars

IngestInit ==
    /\ IngestStart /\ AnalyzeIdle /\ SearchIdle /\ PagesEmpty /\ DetectIdle /\ EmbedIdle
    /\ ChunkIdle /\ FeedbackIdle /\ VolumeIdle
    /\ LateIdle

SpecIngest == IngestInit /\ [][IngestNext]_vars

DetectInit ==
    /\ DetectStart /\ AnalyzeIdle /\ SearchIdle /\ IngestIdle /\ PagesEmpty /\ EmbedIdle
    /\ ChunkIdle /\ FeedbackIdle /\ VolumeIdle
    /\ LateIdle

SpecDetect == DetectInit /\ [][DetectNext]_vars

SpecDetectOverlapping == DetectInit /\ [][DetectOverlappingNext]_vars

EmbedInit ==
    /\ EmbedStart /\ AnalyzeIdle /\ SearchIdle /\ IngestIdle /\ DetectIdle
    /\ ChunkIdle /\ FeedbackIdle /\ VolumeIdle
    /\ LateIdle

SpecEmbed == EmbedInit /\ [][EmbedNext]_vars

TruncInit == TruncStart /\ EarlyIdle /\ SyncIdle /\ LegalIdle

SpecTrunc == TruncInit /\ [][TruncNext]_vars

SyncInit == SyncStart /\ EarlyIdle /\ TruncIdle /\ LegalIdle

SpecSync == SyncInit /\ [][SyncNext]_vars

\* the processor is invoked again and again and every awaited call answers
SyncFairness ==
    /\ WF_vars(SyncBeginOk)
    /\ WF_vars(SyncMarkProcessing)
    /\ WF_vars(SyncSelectDoc)
    /\ WF_vars(\E success \in BOOLEAN : SyncCommit(success))
    /\ WF_vars(SyncUpdateMetadata)
    /\ WF_vars(SyncMarkCompleted)
    /\ WF_vars(SyncMarkFailed)

SpecSyncFair == SyncInit /\ [][SyncNext]_vars /\ SyncFairness

LegalInit == LegalStart /\ EarlyIdle /\ TruncIdle /\ SyncIdle

SpecLegal == LegalInit /\ [][LegalNext]_vars

\* the endpoint is invoked again and again, provider calls and store writes
\* succeed eventually, and a run whose updates have settled goes on
EmbedFairness ==
    /\ WF_vars(\E limit \in Limits, selected \in SUBSET PageNumbers :
                  EmbedBegin(limit, selected))
    /\ SF_vars(\E total \in TokenTotals : EmbedCallOk(total))
    /\ \A p \in PageNumbers : SF_vars(EmbedSettleOk(p))
    /\ WF_vars(EmbedAwaitAll)
    /\ WF_vars(EmbedAwaitReject)

SpecEmbedFair == EmbedInit /\ [][EmbedNext]_vars /\ EmbedFairness

====
